---------------------------- MODULE Spec2Model ----------------------------
(***************************************************************************)
(* Model of the resume layout resolver, preprocessResume                   *)
(* (src/lib/dummy.tsx, lines 186-336), of the calls made on it, and of the *)
(* flow around it: submission, editing and display in a template.          *)
(*                                                                         *)
(* A JavaScript value is a record [k |-> kind, v |-> payload]:             *)
(*   k = "undef"  the property is absent (undefined)                       *)
(*   k = "null"   null                                                     *)
(*   k = "str"    a string; v is its run-length encoding                   *)
(*   k = "arr"    an array; v is the sequence of its elements              *)
(* An entry object of experience / education / certifications / volunteer  *)
(* is a record with k = "obj" and one JavaScript value per property.       *)
(*                                                                         *)
(* A string is kept exactly, as the sequence of its maximal runs           *)
(* [c |-> character, n |-> repetitions]: length, trim, slice, concatenation*)
(* and equality are those of the character sequence, and a resume of       *)
(* several thousand characters stays small.  The characters that are not   *)
(* ASCII are named: "EMDASH", "BULLET", "ELLIPSIS" (one UTF-16 unit each). *)
(***************************************************************************)
EXTENDS Integers, Sequences, FiniteSets, TLC

\* input       the record the caller was given (never written: the reference)
\* caller      the caller's object as it stands now
\* pass1       what preprocessResume(caller) returned
\* pass2       what preprocessResume(pass1.data) returned
\* again       what a later preprocessResume(caller) returned
\* pc          which steps have been taken
\* resumeData  the record held by the page (setResumeData)
\* rendered    the template last rendered and what it displayed
\* edits       how many times the form editor has saved
\* docs        the documents of the 'resumes' collection, by creation order
\* calls       the ResumeService call each client has in flight
\* log         the ResumeService calls that have ended, with their outcome
\* loading     HomeContent's loading flag (setLoading)
\* timer       the 30 s abort timer of handleSubmit
\* errorMsg    HomeContent's error message (setErrorMsg)
\* navigated   the data handleSubmit put in the preview URL (router.push)
\* resp        the response fetch resolved with
VARIABLES input, caller, pass1, pass2, again, pc, resumeData, rendered, edits,
          docs, calls, log, loading, timer, errorMsg, navigated, resp

serviceVars == <<docs, calls, log>>
submitVars == <<loading, timer, errorMsg, navigated, resp>>

vars == <<input, caller, pass1, pass2, again, pc, resumeData, rendered, edits,
          serviceVars, submitVars>>

---------------------------------------------------------------------------
(* Strings as run sequences *)

SPACE == " "

\* One run of n copies of character ch (the empty string when n = 0).
Fill(ch, n) == IF n <= 0 THEN <<>> ELSE <<[c |-> ch, n |-> n]>>

\* s + t : String concatenation, keeping runs maximal.
Cat(s, t) ==
    IF s = <<>> THEN t
    ELSE IF t = <<>> THEN s
    ELSE IF s[Len(s)].c = t[1].c
         THEN SubSeq(s, 1, Len(s) - 1)
              \o <<[c |-> t[1].c, n |-> s[Len(s)].n + t[1].n]>>
              \o Tail(t)
         ELSE s \o t

RECURSIVE RunSum(_, _, _)
\* The characters in runs lo..hi of s (summed by halves).
RunSum(s, lo, hi) ==
    IF lo > hi THEN 0
    ELSE IF lo = hi THEN s[lo].n
    ELSE LET mid == (lo + hi) \div 2
         IN  RunSum(s, lo, mid) + RunSum(s, mid + 1, hi)

\* s.length
StrLen(s) == RunSum(s, 1, Len(s))

\* String.prototype.trim : whitespace removed at both ends.
StrTrim(s) ==
    LET a == IF s # <<>> /\ s[1].c = SPACE THEN Tail(s) ELSE s
    IN  IF a # <<>> /\ a[Len(a)].c = SPACE THEN SubSeq(a, 1, Len(a) - 1) ELSE a

RECURSIVE StrSlice0(_, _)
\* s.slice(0, n) for n >= 0 : the first n characters.
StrSlice0(s, n) ==
    IF n <= 0 \/ s = <<>> THEN <<>>
    ELSE IF s[1].n >= n THEN <<[c |-> s[1].c, n |-> n]>>
    ELSE <<s[1]>> \o StrSlice0(Tail(s), n - s[1].n)

\* String literals of the source.
ELLIPSIS  == Fill("ELLIPSIS", 1)
EMDASH    == Fill("EMDASH", 1)
BULLET    == Fill("BULLET", 1)
Sp        == Fill(SPACE, 1)
UndefinedText ==
    <<[c |-> "u", n |-> 1], [c |-> "n", n |-> 1], [c |-> "d", n |-> 1],
      [c |-> "e", n |-> 1], [c |-> "f", n |-> 1], [c |-> "i", n |-> 1],
      [c |-> "n", n |-> 1], [c |-> "e", n |-> 1], [c |-> "d", n |-> 1]>>
NullText ==
    <<[c |-> "n", n |-> 1], [c |-> "u", n |-> 1], [c |-> "l", n |-> 2]>>

---------------------------------------------------------------------------
(* JavaScript values *)

Undefined == [k |-> "undef", v |-> <<>>]
Null      == [k |-> "null", v |-> <<>>]
Str(s)    == [k |-> "str", v |-> s]
Arr(a)    == [k |-> "arr", v |-> a]

\* Truthiness of a value: undefined, null and "" are falsy.
Truthy(x) == ~(x.k \in {"undef", "null"} \/ (x.k = "str" /\ x.v = <<>>))

\* (x || "") for a string-typed property: the string, or "" when falsy.
OrEmpty(x) == IF Truthy(x) /\ x.k = "str" THEN x.v ELSE <<>>

\* `${x}` : the template-literal conversion of a property to text.
Tmpl(x) ==
    CASE x.k = "undef" -> UndefinedText
      [] x.k = "null"  -> NullText
      [] x.k = "str"   -> x.v
      [] OTHER         -> <<>>

\* Array.isArray(x)
IsArray(x) == x.k = "arr"

\* (x || []) for an array-typed property holding an array or nothing.
OrEmptyArr(x) == IF x.k = "arr" THEN x.v ELSE <<>>

RECURSIVE JoinRange(_, _, _, _)
\* Texts lo..hi of a, with sep between neighbours (joined by halves).
JoinRange(a, sep, lo, hi) ==
    IF lo > hi THEN <<>>
    ELSE IF lo = hi THEN a[lo]
    ELSE LET mid == (lo + hi) \div 2
         IN  Cat(JoinRange(a, sep, lo, mid), Cat(sep, JoinRange(a, sep, mid + 1, hi)))

\* join(sep) of a sequence of texts (already strings).
JoinText(a, sep) == JoinRange(a, sep, 1, Len(a))

\* Array.prototype.join(sep) of an array of strings, undefined and null:
\* undefined and null elements are joined as the empty string.
JoinWith(a, sep) == JoinText([i \in 1..Len(a) |-> OrEmpty(a[i])], sep)

\* arr.slice(0, n)
Take(a, n) == SubSeq(a, 1, IF Len(a) < n THEN Len(a) ELSE n)

\* arr.slice(n)
Drop(a, n) == SubSeq(a, n + 1, Len(a))

\* arr.filter(Boolean) over an array of strings: the empty strings removed.
FilterBoolean(a) == SelectSeq(a, LAMBDA x : x # <<>>)

\* Array.from(new Set(a)) : first occurrences, in insertion order.
Dedupe(a) ==
    LET first == SelectSeq([i \in 1..Len(a) |-> i],
                           LAMBDA i : \A j \in 1..(i - 1) : a[j] # a[i])
    IN  [n \in 1..Len(first) |-> a[first[n]]]

---------------------------------------------------------------------------
(* Helpers of the source (src/lib/dummy.tsx, 187-197) *)

\* Mutant of clamp: the value is returned as it is.
clampNone(v, a, b) == v

\* clamp(v, a, b) = Math.max(a, Math.min(b, v))
clamp(v, a, b) ==
    LET m == IF b < v THEN b ELSE v
    IN  IF a > m THEN a ELSE m

\* arr.map((s) => (s || "").trim()) : the trimmed texts of an array of strings.
TrimAll(a) == [i \in 1..Len(a) |-> StrTrim(OrEmpty(a[i]))]

\* An array of string values from a sequence of texts.
ToStrs(a) == [i \in 1..Len(a) |-> Str(a[i])]

\* Mutant of uniqStrings: trimmed and emptied of blanks, repeats kept.
uniqStringsRepeated(arr) == FilterBoolean(TrimAll(OrEmptyArr(arr)))

\* uniqStrings(arr) : trimmed, empty strings removed, first occurrences kept.
uniqStrings(arr) == Dedupe(FilterBoolean(TrimAll(OrEmptyArr(arr))))

\* `${e.role} ${e.company} ${e.duration} ${(e.description || []).join(" ")}`
ExpEntryText(e) ==
    Cat(Tmpl(e.role), Cat(Sp, Cat(Tmpl(e.company), Cat(Sp, Cat(Tmpl(e.duration),
        Cat(Sp, JoinWith(OrEmptyArr(e.description), Sp)))))))

\* joinExpText(exp)
joinExpText(exp) ==
    LET a == OrEmptyArr(exp)
    IN  JoinText([i \in 1..Len(a) |-> ExpEntryText(a[i])], Sp)

\* `${e.degree} ${e.school} ${e.year}`
EduEntryText(e) ==
    Cat(Tmpl(e.degree), Cat(Sp, Cat(Tmpl(e.school), Cat(Sp, Tmpl(e.year)))))

\* joinEduText(edu)
joinEduText(edu) ==
    LET a == OrEmptyArr(edu)
    IN  JoinText([i \in 1..Len(a) |-> EduEntryText(a[i])], Sp)

\* joinSimple(arr)
joinSimple(arr) == JoinWith(OrEmptyArr(arr), Sp)

\* (c.name || "") + (c.year || "")
CertEntryText(c) == Cat(OrEmpty(c.name), OrEmpty(c.year))

\* `${v.role} ${v.org} ${(v.description || []).join(" ")}`
VolEntryText(v) ==
    Cat(Tmpl(v.role), Cat(Sp, Cat(Tmpl(v.org),
        Cat(Sp, JoinWith(OrEmptyArr(v.description), Sp)))))

---------------------------------------------------------------------------
(* Where the source raises a TypeError *)

\* Mutant of NotCallable: only an absent list is defaulted (a default
\* parameter instead of `|| []`), so a null list raises as well.
NotCallableNull(x) == ~IsArray(x) /\ x.k # "undef" /\ ~(x.k = "str" /\ x.v = <<>>)

\* (x || []).map / .join is called on a value that is truthy and no array.
NotCallable(x) == Truthy(x) /\ ~IsArray(x)

\* e.role is read from an element that is null.
HasNullEntry(x) == IsArray(x) /\ \E i \in 1..Len(x.v) : x.v[i].k \in {"null", "undef"}

\* (e.description || []).join(" ") on an entry whose description is no array.
HasBadDescription(x) ==
    /\ IsArray(x)
    /\ \E i \in 1..Len(x.v) : x.v[i].k = "obj" /\ NotCallable(x.v[i].description)

\* The density computation (lines 213-220) throws.
DensityThrows(data) ==
    \/ NotCallable(data.experience) \/ HasNullEntry(data.experience)
    \/ HasBadDescription(data.experience)
    \/ NotCallable(data.education) \/ HasNullEntry(data.education)
    \/ NotCallable(data.skills)
    \/ NotCallable(data.softSkills)
    \/ NotCallable(data.achivements)
    \/ NotCallable(data.languages)
    \/ NotCallable(data.certifications) \/ HasNullEntry(data.certifications)
    \/ NotCallable(data.volunteer) \/ HasNullEntry(data.volunteer)
    \/ HasBadDescription(data.volunteer)

---------------------------------------------------------------------------
(* The density measure (lines 209-233) *)

totalChars(data) ==
    LET nameLen      == StrLen(OrEmpty(data.name))
        titleLen     == StrLen(OrEmpty(data.title))
        summaryLen   == StrLen(OrEmpty(data.summary))
        expLen       == StrLen(joinExpText(data.experience))
        eduLen       == StrLen(joinEduText(data.education))
        skillsLen    == StrLen(joinSimple(data.skills))
        softLen      == StrLen(joinSimple(data.softSkills))
        achLen       == StrLen(joinSimple(data.achivements))
        langsLen     == StrLen(joinSimple(data.languages))
        certs        == OrEmptyArr(data.certifications)
        certLen      == StrLen(JoinText([i \in 1..Len(certs) |-> CertEntryText(certs[i])], Sp))
        vols         == OrEmptyArr(data.volunteer)
        volunteerLen == StrLen(JoinText([i \in 1..Len(vols) |-> VolEntryText(vols[i])], Sp))
    IN  nameLen + titleLen + summaryLen + expLen + eduLen + skillsLen
        + softLen + achLen + langsLen + certLen + volunteerLen

---------------------------------------------------------------------------
(* Thresholds, scale and font sizes (lines 235-269) *)

TARGET_CHARS == 3600
MEDIUM_CHARS == 2200
COMPACT_CHAR_THRESHOLD == 4200

\* Math.sqrt(TARGET_CHARS): the numerator of Math.pow(rawScale, 0.5).
SqrtTargetChars == 60

baseName == 40
baseSectionTitle == 14
baseBody == 12
baseSidebarTitle == 12
baseSidebarBody == 11
baseDuration == 10
sidebarWidthPx == 180

\* Mutant of compactMode: a flag outside the function remembers that an
\* earlier call was compact, and later calls stay compact.
compactModeLatched(total) ==
    \/ total > MEDIUM_CHARS
    \/ pc # "start" /\ ~pass1.threw /\ pass1.data._layout.compactMode
    \/ pc \in {"reprocessed", "repeated"} /\ pass2 # Undefined /\ ~pass2.threw
           /\ pass2.data._layout.compactMode

\* Mutant of compactMode: the threshold itself is compact.
compactModeAtLeast(total) == total >= MEDIUM_CHARS

\* compactMode = totalChars > MEDIUM_CHARS
compactMode(total) == total > MEDIUM_CHARS

\* Math.max(1, totalChars), the denominator of rawScale.
RawScaleDen(total) == IF total > 1 THEN total ELSE 1

\* Mutant of globalScale: the scale is capped at 1 but has no floor.
globalScaleNoFloor(total) ==
    IF TARGET_CHARS > RawScaleDen(total) THEN [a |-> 1, d |-> 1, b |-> 1]
    ELSE [a |-> SqrtTargetChars, d |-> 1, b |-> RawScaleDen(total)]

(***************************************************************************)
(* globalScale = clamp(Math.pow(rawScale, 0.5), 0.7, 1) with               *)
(* rawScale = TARGET_CHARS / Math.max(1, totalChars).  The square root is  *)
(* irrational in general, so the scale is carried exactly as               *)
(* [a, d, b], standing for the real number a / (d * sqrt(b)):              *)
(*   sqrt(rawScale) > 1    -> 1        = [1, 1, 1]                         *)
(*   sqrt(rawScale) < 0.7  -> 7/10     = [7, 10, 1]                        *)
(*   otherwise             -> 60/sqrt(max(1,totalChars))                   *)
(* sqrt(r) < 0.7 iff 100 * TARGET_CHARS < 49 * den, sqrt(r) > 1 iff        *)
(* TARGET_CHARS > den.                                                     *)
(***************************************************************************)
globalScale(total) ==
    LET den == RawScaleDen(total)
    IN  IF 100 * TARGET_CHARS < 49 * den THEN [a |-> 7, d |-> 10, b |-> 1]
        ELSE IF TARGET_CHARS > den THEN [a |-> 1, d |-> 1, b |-> 1]
        ELSE [a |-> SqrtTargetChars, d |-> 1, b |-> den]

RECURSIVE GCD(_, _)
GCD(x, y) == IF y = 0 THEN x ELSE GCD(y, x % y)

(***************************************************************************)
(* Math.round((p / q) * gs - s4 / 4) for integers p, s4 >= 0, q > 0 and a  *)
(* scale gs = a / (d * sqrt(b)).  Math.round(x) is the largest integer k   *)
(* with k <= x + 1/2 (halves round up), that is with                       *)
(*   (4k - 2 + s4) * q * d * sqrt(b) <= 4 * p * a ,                        *)
(* decided exactly on integers (common factor removed to stay in 32 bits). *)
(***************************************************************************)
MathRoundScaled(p, q, gs, s4) ==
    LET r0 == 4 * p * gs.a
        l0 == q * gs.d
        g  == GCD(r0, l0)
        r  == r0 \div g
        lc == l0 \div g
        Ok(k) == LET l == (4 * k - 2 + s4) * lc
                 IN  l <= 0 \/ gs.b <= (r * r) \div (l * l)
        lo == 0 - ((s4 + 3) \div 4)
        hi == (p \div q) + 1
    IN  CHOOSE k \in lo..hi : Ok(k) /\ ~Ok(k + 1)

\* Mutant of NamePenaltyQuarters: the penalty starts above 20 characters.
NamePenaltyFrom20(nameLen) == IF nameLen > 20 THEN nameLen - 20 ELSE 0

\* The name-length penalty in quarter pixels: (nameLen - 24) * 0.25 above 24.
NamePenaltyQuarters(nameLen) == IF nameLen > 24 THEN nameLen - 24 ELSE 0

\* nameFontSize (line 250)
nameFontSize(total, nameLen) ==
    clamp(MathRoundScaled(baseName, 1, globalScale(total),
                          NamePenaltyQuarters(nameLen)), 16, 48)

\* Mutant of sidebarPenalty: the penalty is applied up to the threshold
\* and lifted above it.
sidebarPenaltyBelow(total) ==
    IF total > COMPACT_CHAR_THRESHOLD THEN [n |-> 1, d |-> 1] ELSE [n |-> 22, d |-> 25]

\* Mutant of sidebarPenalty: the threshold itself is penalised.
sidebarPenaltyAtLeast(total) ==
    IF total >= COMPACT_CHAR_THRESHOLD THEN [n |-> 22, d |-> 25] ELSE [n |-> 1, d |-> 1]

\* sidebarPenalty = totalChars > COMPACT_CHAR_THRESHOLD ? 0.88 : 1, as n/d.
sidebarPenalty(total) ==
    IF total > COMPACT_CHAR_THRESHOLD THEN [n |-> 22, d |-> 25] ELSE [n |-> 1, d |-> 1]

\* sectionFontSizes (lines 262-269)
sectionFontSizes(total, nameLen) ==
    LET gs  == globalScale(total)
        pen == sidebarPenalty(total)
    IN  [name         |-> nameFontSize(total, nameLen),
         sectionTitle |-> clamp(MathRoundScaled(baseSectionTitle, 1, gs, 0), 10, 18),
         body         |-> clamp(MathRoundScaled(baseBody, 1, gs, 0), 9, 14),
         sidebarTitle |-> clamp(MathRoundScaled(baseSidebarTitle * pen.n, pen.d, gs, 0), 9, 14),
         sidebarBody  |-> clamp(MathRoundScaled(baseSidebarBody * pen.n, pen.d, gs, 0), 8, 12),
         duration     |-> clamp(MathRoundScaled(baseDuration, 1, gs, 0), 8, 12)]

\* The caps chosen by compact mode (lines 271-275, 318).
\* Mutant of maxExperienceItems: the two modes' caps are exchanged.
maxExperienceItemsExchanged(compact) == IF compact THEN 6 ELSE 3

maxExperienceItems(compact) == IF compact THEN 3 ELSE 6
maxBulletsPerExp(compact) == IF compact THEN 2 ELSE 4
maxEducationItems(compact) == IF compact THEN 2 ELSE 6

\* Mutant of truncateCharPerLine: the normal length in both modes, so the
\* compact caps come with the normal truncation.
truncateCharPerLineMixed(compact) == IF compact THEN 220 ELSE 220

truncateCharPerLine(compact) == IF compact THEN 120 ELSE 220
achCap(compact) == IF compact THEN 6 ELSE 12

\* The layout hints attached to the result (lines 321-331).
LayoutHints(total, nameLen) ==
    LET cm == compactMode(total)
    IN  [compactMode         |-> cm,
         nameFontSize        |-> nameFontSize(total, nameLen),
         maxExperienceItems  |-> maxExperienceItems(cm),
         maxBulletsPerExp    |-> maxBulletsPerExp(cm),
         maxEducationItems   |-> maxEducationItems(cm),
         truncateCharPerLine |-> truncateCharPerLine(cm),
         sectionFontSizes    |-> sectionFontSizes(total, nameLen),
         sidebarWidthPx      |-> sidebarWidthPx]

---------------------------------------------------------------------------
(* The deep copy (line 207) *)

\* What JSON.stringify / JSON.parse make of an array of strings: an
\* undefined element becomes null; anything that is no array is kept.
JsonCopyList(x) ==
    IF IsArray(x)
    THEN Arr([i \in 1..Len(x.v) |-> IF x.v[i].k = "undef" THEN Null ELSE x.v[i]])
    ELSE x

\* The copy of an array of entries that carry a description list.
JsonCopyEntries(x) ==
    IF IsArray(x)
    THEN Arr([i \in 1..Len(x.v) |->
                IF x.v[i].k = "undef" THEN Null
                ELSE IF x.v[i].k = "obj"
                     THEN [x.v[i] EXCEPT !.description = JsonCopyList(@)]
                     ELSE x.v[i]])
    ELSE x

\* `{}` : a record none of whose properties is present.
EmptyResume ==
    [k |-> "obj", name |-> Undefined, title |-> Undefined, contact |-> Undefined,
     summary |-> Undefined, experience |-> Undefined, education |-> Undefined,
     certifications |-> Undefined, achivements |-> Undefined,
     volunteer |-> Undefined, skills |-> Undefined, softSkills |-> Undefined,
     languages |-> Undefined, _layout |-> Undefined]

\* JSON.parse(JSON.stringify(input || {}))
JsonCopy(in) ==
    IF in.k # "obj" THEN EmptyResume
    ELSE [in EXCEPT !.experience  = JsonCopyEntries(@),
                    !.education   = JsonCopyList(@),
                    !.certifications = JsonCopyList(@),
                    !.achivements = JsonCopyList(@),
                    !.volunteer   = JsonCopyEntries(@),
                    !.skills      = JsonCopyList(@),
                    !.softSkills  = JsonCopyList(@),
                    !.languages   = JsonCopyList(@)]

---------------------------------------------------------------------------
(* Caps, overflow and truncation (lines 277-319) *)

\* " • " and " — "
BulletSep == Cat(Sp, Cat(BULLET, Sp))
DashSep   == Cat(Sp, Cat(EMDASH, Sp))

\* Mutant of ExpOverflowEntry: the bullets of a condensed string are cut to
\* 120 characters like the bullets of a retained entry.
ExpOverflowEntryTruncated(e, maxBullets) ==
    LET title   == StrTrim(Cat(OrEmpty(e.role), Cat(DashSep, OrEmpty(e.company))))
        bullets == TrimAll(Take(OrEmptyArr(e.description), maxBullets))
        cut     == [i \in 1..Len(bullets) |->
                       IF StrLen(bullets[i]) > 120
                       THEN Cat(StrTrim(StrSlice0(bullets[i], 119)), ELLIPSIS)
                       ELSE bullets[i]]
    IN  JoinText(FilterBoolean(<<title>> \o cut), BulletSep)

\* The condensed string of one overflowing experience entry (lines 287-289).
ExpOverflowEntry(e, maxBullets) ==
    LET title   == StrTrim(Cat(OrEmpty(e.role), Cat(DashSep, OrEmpty(e.company))))
        bullets == TrimAll(Take(OrEmptyArr(e.description), maxBullets))
    IN  JoinText(FilterBoolean(<<title>> \o bullets), BulletSep)

\* The condensed string of one overflowing education entry (line 298).
EduOverflowEntry(ed) ==
    StrTrim(Cat(OrEmpty(ed.degree), Cat(DashSep, Cat(OrEmpty(ed.school),
            Cat(Sp, StrTrim(OrEmpty(ed.year)))))))

\* extras.forEach(... if (entry) extraAchievements.push(entry)), experience.
ExpExtras(exp, cm) ==
    LET extras == Drop(exp, maxExperienceItems(cm))
    IN  IF Len(exp) > maxExperienceItems(cm)
        THEN FilterBoolean([i \in 1..Len(extras) |->
                               ExpOverflowEntry(extras[i], maxBulletsPerExp(cm))])
        ELSE <<>>

\* Mutant of EduExtras: the removed education entries are not condensed.
EduExtrasDropped(edu, cm) == <<>>

\* The same for education.
EduExtras(edu, cm) ==
    LET extras == Drop(edu, maxEducationItems(cm))
    IN  IF Len(edu) > maxEducationItems(cm)
        THEN FilterBoolean([i \in 1..Len(extras) |-> EduOverflowEntry(extras[i])])
        ELSE <<>>

\* Mutant of TruncateBullet: the cut is made at truncateCharPerLine.
TruncateBulletAtLimit(d, trunc) ==
    IF StrLen(d) > trunc THEN Cat(StrTrim(StrSlice0(d, trunc)), ELLIPSIS) ELSE d

\* d.length > truncateCharPerLine ? d.slice(0, truncateCharPerLine - 1).trim() + "…" : d
TruncateBullet(d, trunc) ==
    IF StrLen(d) > trunc THEN Cat(StrTrim(StrSlice0(d, trunc - 1)), ELLIPSIS) ELSE d

\* Mutant of TrimEntry: the bullets are trimmed and truncated, not capped.
TrimEntryUncapped(e, cm) ==
    LET desc == IF IsArray(e.description) THEN TrimAll(e.description.v) ELSE <<>>
    IN  [e EXCEPT !.description =
           Arr(ToStrs([i \in 1..Len(desc) |->
                          TruncateBullet(desc[i], truncateCharPerLine(cm))]))]

\* Mutant of TrimEntry: a bullet is converted with String(d), so a null
\* bullet becomes the text "null".
TrimEntryStringify(e, cm) ==
    LET desc == IF IsArray(e.description)
                THEN [i \in 1..Len(Take(e.description.v, maxBulletsPerExp(cm))) |->
                         StrTrim(Tmpl(e.description.v[i]))]
                ELSE <<>>
    IN  [e EXCEPT !.description =
           Arr(ToStrs([i \in 1..Len(desc) |->
                          TruncateBullet(desc[i], truncateCharPerLine(cm))]))]

\* Mutant of TrimEntry: the bullets are taken from index 1, slice(1, max).
TrimEntrySkipFirst(e, cm) ==
    LET desc == IF IsArray(e.description)
                THEN TrimAll(Drop(Take(e.description.v, maxBulletsPerExp(cm)), 1))
                ELSE <<>>
    IN  [e EXCEPT !.description =
           Arr(ToStrs([i \in 1..Len(desc) |->
                          TruncateBullet(desc[i], truncateCharPerLine(cm))]))]

\* One retained experience entry with its bullets capped and truncated
\* (lines 304-307).
TrimEntry(e, cm) ==
    LET desc == IF IsArray(e.description)
                THEN TrimAll(Take(e.description.v, maxBulletsPerExp(cm)))
                ELSE <<>>
    IN  [e EXCEPT !.description =
           Arr(ToStrs([i \in 1..Len(desc) |->
                          TruncateBullet(desc[i], truncateCharPerLine(cm))]))]

\* One normalised certification (line 310).
TrimCert(c) ==
    [k |-> "obj", name |-> Str(StrTrim(OrEmpty(c.name))),
     year |-> Str(StrTrim(OrEmpty(c.year)))]

\* Mutant of MergeAchievements: the union is capped but not deduplicated.
MergeAchievementsNoSet(ach, extraAchievements, cm) ==
    LET existingAch == IF IsArray(ach) THEN TrimAll(ach.v) ELSE <<>>
    IN  Take(FilterBoolean(existingAch \o extraAchievements), achCap(cm))

\* Mutant of MergeAchievements: the overflow strings come first.
MergeAchievementsExtrasFirst(ach, extraAchievements, cm) ==
    LET existingAch == IF IsArray(ach) THEN TrimAll(ach.v) ELSE <<>>
        combined    == FilterBoolean(Dedupe(extraAchievements \o existingAch))
    IN  Take(combined, achCap(cm))

\* The merged achievements (lines 316-319).
MergeAchievements(ach, extraAchievements, cm) ==
    LET existingAch == IF IsArray(ach) THEN TrimAll(ach.v) ELSE <<>>
        combined    == FilterBoolean(Dedupe(existingAch \o extraAchievements))
    IN  Take(combined, achCap(cm))

\* Mutant of KeepExperience: the last entries are kept, not the first.
KeepExperienceLast(exp, cm) ==
    IF Len(exp) > maxExperienceItems(cm)
    THEN Drop(exp, Len(exp) - maxExperienceItems(cm)) ELSE exp

\* The experience entries kept (lines 283-285).
KeepExperience(exp, cm) ==
    IF Len(exp) > maxExperienceItems(cm) THEN Take(exp, maxExperienceItems(cm)) ELSE exp

\* The education entries kept (lines 294-296).
KeepEducation(edu, cm) ==
    IF Len(edu) > maxEducationItems(cm) THEN Take(edu, maxEducationItems(cm)) ELSE edu

\* The body of preprocessResume after the copy, for a copy on which the
\* density computation raises nothing (lines 209-335).
Process(data) ==
    LET total == totalChars(data)
        cm    == compactMode(total)
        exp   == IF IsArray(data.experience) THEN data.experience.v ELSE <<>>
        edu   == IF IsArray(data.education) THEN data.education.v ELSE <<>>
        extraAchievements == ExpExtras(exp, cm) \o EduExtras(edu, cm)
        expKept == KeepExperience(exp, cm)
        eduKept == KeepEducation(edu, cm)
        certs == IF IsArray(data.certifications)
                 THEN Take([i \in 1..Len(data.certifications.v) |->
                               TrimCert(data.certifications.v[i])], 20)
                 ELSE <<>>
    IN  [data EXCEPT
           !.experience     = Arr([i \in 1..Len(expKept) |-> TrimEntry(expKept[i], cm)]),
           !.education      = Arr(eduKept),
           !.certifications = Arr(certs),
           !.softSkills     = Arr(ToStrs(Take(uniqStrings(data.softSkills), IF cm THEN 6 ELSE 12))),
           !.skills         = Arr(ToStrs(Take(uniqStrings(data.skills), IF cm THEN 12 ELSE 30))),
           !.languages      = Arr(ToStrs(Take(uniqStrings(data.languages), IF cm THEN 3 ELSE 8))),
           !.achivements    = Arr(ToStrs(MergeAchievements(data.achivements,
                                                           extraAchievements, cm))),
           !._layout        = LayoutHints(total, StrLen(OrEmpty(data.name)))]

\* Mutant of preprocessResume: volunteer is capped to one entry like the
\* other lists.
preprocessResumeVolunteerCapped(in) ==
    LET data == JsonCopy(in)
    IN  IF DensityThrows(data)
        THEN [threw |-> TRUE, data |-> Undefined]
        ELSE [threw |-> FALSE,
              data |-> [Process(data) EXCEPT
                          !.volunteer = IF IsArray(@) THEN Arr(Take(@.v, 1)) ELSE @]]

\* preprocessResume(input): the record returned, or the fact that a
\* TypeError left the function.
preprocessResume(in) ==
    LET data == JsonCopy(in)
    IN  IF DensityThrows(data)
        THEN [threw |-> TRUE, data |-> Undefined]
        ELSE [threw |-> FALSE, data |-> Process(data)]

\* Mutant of ArgumentAfter: `data` is the argument itself (input || {}
\* without the JSON round trip), so the writes reach the caller's object.
ArgumentAliased(in, out) == IF out.threw \/ in.k # "obj" THEN in ELSE out.data

\* The object passed as argument, after the call that returned `out`.
\* Line 207 binds `data` to the graph JSON.parse builds; every write of
\* lines 280-333 (data.experience = ..., data._layout = layout) and the
\* arrays and objects they store (slice, map, spread) belong to that graph,
\* and no statement assigns to `input` or to a property reached from it.
ArgumentAfter(in, out) == in

---------------------------------------------------------------------------
(* The templates: which entries and bullets they display                   *)
(* (src/unnamed/part_002 lines 739-1001, src/unnamed/part_003 lines 27-260 *)
(* and 355-596)                                                            *)

\* data._layout ?? {} followed by layout.<hint> ?? fallback
LayoutHint(data, hint, fallback) ==
    IF hint \in DOMAIN data._layout THEN data._layout[hint] ELSE fallback

\* truncate(s, n) of the templates:
\* s && s.length > n ? s.slice(0, n - 1).trim() + "…" : s
truncate(s, n) ==
    IF StrLen(s) > n THEN Cat(StrTrim(StrSlice0(s, n - 1)), ELLIPSIS) ELSE s

\* The <li> texts of one entry: the bullets `shown`, each through truncate.
BulletItems(shown, n) ==
    [j \in 1..Len(shown) |-> truncate(OrEmpty(shown[j]), n)]

\* A destructured list property: `= []` stands in for undefined only, and
\* the templates display nothing for a value that is no array.
ListProp(x) == IF IsArray(x) THEN x.v ELSE <<>>

\* The property `key` of the record, undefined when the record has none.
Prop(data, key) == IF key \in DOMAIN data THEN data[key] ELSE Undefined

\* MinimalTemplate (the "template-professional" entry): every experience
\* entry, every bullet of it cut at 240 characters, every education entry.
\* No hint other than the font sizes is read for these sections.  The
\* ACHIEVEMENTS section lists the property `achievements` of the record,
\* each string through truncate(a) with layout.truncateCharPerLine ?? 300.
MinimalTemplate(data) ==
    LET experience == ListProp(data.experience)
        education  == ListProp(data.education)
        achievements == ListProp(Prop(data, "achievements"))
    IN  [experience |-> [i \in 1..Len(experience) |->
                           BulletItems(ListProp(experience[i].description), 240)],
         education  |-> education,
         achievements |-> BulletItems(achievements,
                                      LayoutHint(data, "truncateCharPerLine", 300))]

\* ModernTemplate: experience.slice(0, maxExperienceItems), each with
\* description.slice(0, maxBullets) through truncate(d), and education.map
\* over every entry.
ModernTemplate(data) ==
    LET maxBullets    == LayoutHint(data, "maxBulletsPerExp", 4)
        maxExperience == LayoutHint(data, "maxExperienceItems", 6)
        truncateChars == LayoutHint(data, "truncateCharPerLine", 220)
        experience == Take(ListProp(data.experience), maxExperience)
        education  == ListProp(data.education)
        achievements == ListProp(Prop(data, "achievements"))
    IN  [experience |-> [i \in 1..Len(experience) |->
                           BulletItems(Take(ListProp(experience[i].description),
                                            maxBullets), truncateChars)],
         education  |-> education,
         achievements |-> BulletItems(achievements, truncateChars)]

\* CreativeTemplate: sliceWithCount(experience, maxExperienceItems).items,
\* each with description.slice(0, maxBullets) through truncate, and
\* sliceWithCount(education, maxEducationItems).items.  (An entry with more
\* bullets than maxBullets gets one further item, "+N more", which is no
\* bullet of the resume.)  `achivements` is destructured (line 39) and used
\* nowhere in what the component returns.
CreativeTemplate(data) ==
    LET maxBullets    == LayoutHint(data, "maxBulletsPerExp", 4)
        maxExperience == LayoutHint(data, "maxExperienceItems", 6)
        maxEducation  == LayoutHint(data, "maxEducationItems", 6)
        truncateChars == LayoutHint(data, "truncateCharPerLine", 220)
        expSlice == Take(ListProp(data.experience), maxExperience)
        eduSlice == Take(ListProp(data.education), maxEducation)
    IN  [experience |-> [i \in 1..Len(expSlice) |->
                           BulletItems(Take(ListProp(expSlice[i].description),
                                            maxBullets), truncateChars)],
         education  |-> eduSlice,
         achievements |-> <<>>]

TemplateIds == {"template-professional", "template-modern", "template-creative"}

\* renderTemplate(template, resumeData)
renderTemplate(template, data) ==
    CASE template = "template-modern"   -> ModernTemplate(data)
      [] template = "template-creative" -> CreativeTemplate(data)
      [] OTHER                          -> MinimalTemplate(data)

---------------------------------------------------------------------------
(* The editor (src/pages/components/ResumeFormEditor.tsx) *)

\* LIMITS of the editor.
LimitDescription         == 150
LimitMaxExperience       == 10
LimitMaxEducation        == 5
LimitMaxDescriptionItems == 5

RECURSIVE Chars(_)
\* The characters of a (short) string, one by one.
Chars(s) ==
    IF s = <<>> THEN <<>> ELSE [i \in 1..s[1].n |-> s[1].c] \o Chars(Tail(s))

\* /^[^\s@]+@[^\s@]+\.[^\s@]+$/.test(email)
ValidEmail(s) ==
    LET c == Chars(s)
    IN  \E a \in 2..(Len(c) - 3) :
            /\ c[a] = "@"
            /\ \A i \in 1..Len(c) : c[i] # SPACE /\ (c[i] = "@" => i = a)
            /\ \E d \in (a + 2)..(Len(c) - 1) : c[d] = "."

\* !x?.trim() is false: the property is a string with a character that is
\* no whitespace.
Filled(x) == x.k = "str" /\ StrTrim(x.v) # <<>>

\* validateForm() finds no error.
validateForm(formData) ==
    /\ Filled(formData.name)
    /\ formData.contact.k = "obj" /\ Filled(formData.contact.email)
    /\ ValidEmail(formData.contact.email.v)
    /\ Filled(formData.summary)
    /\ \A i \in 1..Len(formData.experience.v) :
           Filled(formData.experience.v[i].role) /\ Filled(formData.experience.v[i].company)
    /\ \A i \in 1..Len(formData.education.v) :
           Filled(formData.education.v[i].degree) /\ Filled(formData.education.v[i].school)

\* What the user does in the form before saving.
EditKinds ==
    {"addExperience", "addEducation", "addBullet", "longBullet",
     "removeExperience", "removeEducation", "updateField"}

\* The add buttons return early at the LIMITS; a bullet can be edited only
\* where there is one.
CanEdit(formData, kind) ==
    CASE kind = "addExperience" -> Len(formData.experience.v) < LimitMaxExperience
      [] kind = "addEducation"  -> Len(formData.education.v) < LimitMaxEducation
      [] kind = "addBullet"     ->
           /\ Len(formData.experience.v) > 0
           /\ Len(formData.experience.v[1].description.v) < LimitMaxDescriptionItems
      [] kind = "removeExperience" -> Len(formData.experience.v) > 0
      [] kind = "removeEducation"  -> Len(formData.education.v) > 0
      [] kind = "updateField"      -> TRUE
      [] OTHER                  ->
           /\ Len(formData.experience.v) > 0
           /\ Len(formData.experience.v[1].description.v) > 0

\* formData after the edit: setFormData(prev => ({ ...prev, <list>: ... })),
\* so every other property, _layout included, is carried over.  An added
\* entry or bullet is then typed in; a typed bullet is cut to
\* LIMITS.description characters.
Edited(formData, kind) ==
    CASE kind = "addExperience" ->
           [formData EXCEPT !.experience = Arr(Append(@.v,
               [k |-> "obj", role |-> Str(Fill("R", 5)), company |-> Str(Fill("C", 3)),
                duration |-> Str(<<>>), description |-> Arr(<<Str(Fill("B", 20))>>)]))]
      [] kind = "addEducation" ->
           [formData EXCEPT !.education = Arr(Append(@.v,
               [k |-> "obj", degree |-> Str(Fill("G", 8)), school |-> Str(Fill("H", 4)),
                year |-> Str(<<>>)]))]
      [] kind = "addBullet" ->
           [formData EXCEPT !.experience.v[1].description =
               Arr(Append(@.v, Str(Fill("B", 20))))]
      [] kind = "removeExperience" ->
           [formData EXCEPT !.experience = Arr(Tail(@.v))]
      [] kind = "removeEducation" ->
           [formData EXCEPT !.education = Arr(Tail(@.v))]
      [] kind = "updateField" ->
           [formData EXCEPT !.summary = Str(Fill("S", 40))]
      [] OTHER ->
           [formData EXCEPT !.experience.v[1].description.v[1] =
               Str(StrSlice0(Fill("U", LimitDescription + 50), LimitDescription))]

\* Mutant of Saved: the page runs the resolver on what the editor returns.
SavedResolved(updatedData) == preprocessResume(updatedData).data

\* handleEditSave(updatedData): setResumeData(updatedData), and the same
\* object is written to localStorage (src/unnamed/part_005 lines 616-639).
Saved(updatedData) == updatedData

---------------------------------------------------------------------------
(* The inputs the model draws *)

\* Bounds of the input space and of the runs.
MaxEdits        == 2
MaxClients      == 2
MaxDocs         == 2
MaxCalls        == 3
MaxExperience   == 8
MaxEducation    == 7
MaxAchievements == 12
MaxBullets      == 5
MaxSkills       == 32
LongNameLen     == 120
DenseChars      == 7400

\* The clients that call ResumeService concurrently.
Clients == 1..MaxClients

\* The bullets of the "long" shape, by kind: whitespace around both cut
\* positions, a long unbroken bullet, and bullets at and next to the caps.
LongBullet(j) ==
    CASE j % 5 = 1 -> Cat(Sp, Cat(Fill("x", 118), Cat(Fill(SPACE, 2), Cat(Fill("y", 98),
                      Cat(Fill(SPACE, 2), Cat(Fill("z", 80), Sp))))))
      [] j % 5 = 2 -> Fill("q", 300)
      [] j % 5 = 3 -> Fill("e", 220)
      [] j % 5 = 4 -> Fill("f", 120)
      [] OTHER     -> Fill("g", 121)

ExpShapes == {"plain", "nodur", "long", "sparse"}

\* Experience entry i of a shape.
ExpEntry(i, shape) ==
    CASE shape = "plain" ->
           [k |-> "obj", role |-> Str(Fill("r", i)), company |-> Str(Fill("c", 3)),
            duration |-> Str(Fill("d", 4)),
            description |-> Arr([j \in 1..4 |-> Str(Fill("b", 50))])]
      [] shape = "nodur" ->
           [k |-> "obj", role |-> Str(Fill("r", i)), company |-> Str(Fill("c", 3)),
            duration |-> Str(<<>>),
            description |-> Arr(<<Str(Cat(Fill("b", 20), Sp))>>)]
      [] shape = "long" ->
           [k |-> "obj", role |-> Str(Fill("r", i)), company |-> Str(Fill("c", 3)),
            duration |-> Str(Fill("d", 4)),
            description |-> Arr([j \in 1..MaxBullets |-> Str(LongBullet(i + j - 1))])]
      [] OTHER ->
           [k |-> "obj", role |-> Undefined, company |-> Null,
            duration |-> Undefined,
            description |-> IF i % 2 = 0 THEN Null ELSE Arr(<<Null, Undefined>>)]

Experience(n, shape) == Arr([i \in 1..n |-> ExpEntry(i, shape)])

\* Education entry i; the third has no year.
EduEntry(i) ==
    [k |-> "obj", degree |-> Str(Fill("g", i)), school |-> Str(Fill("h", 4)),
     year |-> IF i = 3 THEN Undefined ELSE Str(Cat(Fill("y", 4), Sp))]

Education(n) == Arr([i \in 1..n |-> EduEntry(i)])

\* Existing achievements: none, a few with duplicates, blanks and a string
\* equal to a condensed entry, or MaxAchievements distinct ones.
Achievements(kind) ==
    CASE kind = "none" -> Undefined
      [] kind = "few"  -> Arr(<<Str(Fill("a", 2)), Str(Cat(Sp, Cat(Fill("a", 2), Sp))),
                                Str(DashSep), Str(<<>>), Null>>)
      [] OTHER         -> Arr([i \in 1..MaxAchievements |-> Str(Fill("a", i))])

\* A list of n distinct strings followed by a repeat, a padded repeat, a
\* blank and an undefined element.
StringList(ch, n) ==
    Arr([i \in 1..n |-> Str(Fill(ch, i))]
        \o <<Str(Fill(ch, 1)), Str(Cat(Sp, Fill(ch, 2))), Str(Sp), Undefined>>)

Certifications(n) ==
    Arr([i \in 1..n |-> [k |-> "obj", name |-> Str(Cat(Fill("n", i), Sp)),
                         year |-> IF i % 2 = 0 THEN Undefined ELSE Str(Fill("y", 4))]])

Volunteer ==
    Arr(<<[k |-> "obj", role |-> Str(Fill("v", 3)), org |-> Str(Fill("o", 3)),
           duration |-> Str(Fill("d", 4)),
           description |-> Arr(<<Str(Fill("w", 130)), Str(Cat(Sp, Fill("w", 5)))>>)],
          [k |-> "obj", role |-> Str(Fill("v", 4)), org |-> Undefined,
           duration |-> Undefined, description |-> Null]>>)

Contact ==
    [k |-> "obj", phone |-> Str(Fill("p", 10)), email |-> Str(Fill("m", 12)),
     address |-> Undefined, linkedin |-> Null]

\* A resume record with the given lists and an empty summary.
Resume(nameLen, exp, edu, ach, rich) ==
    [k |-> "obj",
     name |-> Str(Fill("N", nameLen)),
     title |-> IF rich THEN Str(Fill("T", 8)) ELSE Undefined,
     contact |-> Contact,
     summary |-> Str(<<>>),
     experience |-> exp,
     education |-> edu,
     certifications |-> IF rich THEN Certifications(21) ELSE Undefined,
     achivements |-> ach,
     volunteer |-> IF rich THEN Volunteer ELSE Null,
     skills |-> IF rich THEN StringList("k", MaxSkills) ELSE Arr(<<>>),
     softSkills |-> IF rich THEN StringList("t", 13) ELSE Undefined,
     languages |-> IF rich THEN StringList("l", 9) ELSE Null,
     _layout |-> Undefined]

\* The resume r with its summary filled so that the density is `target`
\* characters (left empty when the rest already has that many).
FillTo(r, target) ==
    [r EXCEPT !.summary = Str(Fill("s", target - totalChars(JsonCopy(r))))]

Targets == {0, MEDIUM_CHARS, MEDIUM_CHARS + 1, COMPACT_CHAR_THRESHOLD + 1}

\* Resumes whose lists vary, at the thresholds of the density.
ContentInputs(in) ==
    \E ne \in {0, 1, 3, 4, 7, MaxExperience}, shape \in ExpShapes,
       ned \in {0, 3, MaxEducation}, ach \in {"none", "few", "many"},
       rich \in BOOLEAN, target \in Targets, nameLen \in {10, 30} :
        /\ ne = 0 => shape = "plain"
        /\ in = FillTo(Resume(nameLen, Experience(ne, shape), Education(ned),
                              Achievements(ach), rich), target)

\* The densities at which the scale, the rounding and the modes change.
TextTotals ==
    {0, 1, 10, 2199, 2200, 2201, 3599, 3600, 3601, 3700, 4096, 4200, 4201,
     5000, 5625, 6400, 7346, 7347, DenseChars}

\* Resumes of a name and a summary only.
TextInputs(in) ==
    \E nameLen \in {0, 10, 24, 25, 26, 27, 60, LongNameLen}, total \in TextTotals :
        in = FillTo(Resume(nameLen, Arr(<<>>), Arr(<<>>), Undefined, FALSE), total)

\* A short resume in which every top-level field is present.
SmallResume ==
    [Resume(10, Experience(2, "nodur"), Education(1), Achievements("few"), FALSE)
       EXCEPT !.title = Str(Fill("T", 8)),
              !.summary = Str(Fill("s", 30)),
              !.certifications = Certifications(2),
              !.volunteer = Volunteer,
              !.skills = StringList("k", 2),
              !.softSkills = StringList("t", 1),
              !.languages = StringList("l", 1)]

TopFields ==
    {"name", "title", "contact", "summary", "experience", "education",
     "certifications", "achivements", "volunteer", "skills", "softSkills",
     "languages"}

\* The resume r with the fields of `gone` replaced by `missing`.
Without(r, gone, missing) ==
    [f \in DOMAIN r |-> IF f \in gone THEN missing ELSE r[f]]

\* Resumes lacking any subset of the top-level fields (absent or null),
\* and no record at all.
PartialInputs(in) ==
    \/ \E gone \in SUBSET TopFields, missing \in {Undefined, Null} :
          in = Without(SmallResume, gone, missing)
    \/ in \in {Undefined, Null}

\* A text where a list is expected, an entry that is null, a description
\* that is a text.
Malformations ==
    {"expText", "expEmptyText", "expNullEntry", "expDescText", "expDescEmptyText",
     "expDescNullBullet", "eduText", "eduNullEntry", "certText", "certNullEntry",
     "achText", "achNullEntry", "volText", "volNullEntry", "volDescText",
     "skillsText", "skillsNullEntry", "softText", "langText"}

SomeText == Str(Fill("m", 3))

Malform(r, m) ==
    CASE m = "expText"          -> [r EXCEPT !.experience = SomeText]
      [] m = "expEmptyText"     -> [r EXCEPT !.experience = Str(<<>>)]
      [] m = "expNullEntry"     -> [r EXCEPT !.experience = Arr(Append(@.v, Null))]
      [] m = "expDescText"      -> [r EXCEPT !.experience.v[1].description = SomeText]
      [] m = "expDescEmptyText" -> [r EXCEPT !.experience.v[1].description = Str(<<>>)]
      [] m = "expDescNullBullet" -> [r EXCEPT !.experience.v[1].description = Arr(<<Null>>)]
      [] m = "eduText"          -> [r EXCEPT !.education = SomeText]
      [] m = "eduNullEntry"     -> [r EXCEPT !.education = Arr(<<Null>> \o @.v)]
      [] m = "certText"         -> [r EXCEPT !.certifications = SomeText]
      [] m = "certNullEntry"    -> [r EXCEPT !.certifications = Arr(<<Null>>)]
      [] m = "achText"          -> [r EXCEPT !.achivements = SomeText]
      [] m = "achNullEntry"     -> [r EXCEPT !.achivements = Arr(<<Null>>)]
      [] m = "volText"          -> [r EXCEPT !.volunteer = SomeText]
      [] m = "volNullEntry"     -> [r EXCEPT !.volunteer = Arr(Append(@.v, Null))]
      [] m = "volDescText"      -> [r EXCEPT !.volunteer.v[1].description = SomeText]
      [] m = "skillsText"       -> [r EXCEPT !.skills = SomeText]
      [] m = "skillsNullEntry"  -> [r EXCEPT !.skills = Arr(<<Null, Str(Fill("k", 2))>>)]
      [] m = "softText"         -> [r EXCEPT !.softSkills = SomeText]
      [] OTHER                  -> [r EXCEPT !.languages = SomeText]

\* Resumes with one malformed nested shape.
MalformedInputs(in) ==
    \E m \in Malformations, target \in {0, MEDIUM_CHARS + 1} :
        in = Malform(FillTo(SmallResume, target), m)

\* An address the editor accepts.
SomeEmail ==
    Cat(Fill("m", 5), Cat(Fill("@", 1), Cat(Fill("m", 3), Cat(Fill(".", 1), Fill("m", 2)))))

\* Resumes the model returns for a submission: well formed, with a name and
\* an address, at the threshold of the compact mode.
SubmittedInputs(in) ==
    \E ne \in {1, 3, 4, 7}, shape \in {"plain", "long"}, ned \in {0, 3, MaxEducation},
       target \in {MEDIUM_CHARS, MEDIUM_CHARS + 1} :
        in = FillTo([Resume(10, Experience(ne, shape), Education(ned), Undefined, FALSE)
                       EXCEPT !.contact.email = Str(SomeEmail)], target)

\* No ResumeService call has been made.
ServiceIdle ==
    /\ docs = <<>>
    /\ calls = [p \in Clients |-> Undefined]
    /\ log = <<>>

\* HomeContent as mounted: useState(false), useState(null).
SubmitIdle ==
    /\ loading = FALSE
    /\ timer = "none"
    /\ errorMsg = Null
    /\ navigated = Undefined
    /\ resp = Undefined

Init ==
    /\ \/ ContentInputs(input)
       \/ TextInputs(input)
       \/ PartialInputs(input)
       \/ MalformedInputs(input)
    /\ caller = input
    /\ pass1 = Undefined
    /\ pass2 = Undefined
    /\ again = Undefined
    /\ pc = "start"
    /\ resumeData = Undefined
    /\ rendered = Undefined
    /\ edits = 0
    /\ ServiceIdle
    /\ SubmitIdle

\* processed = preprocessResume(data)
FirstPass ==
    /\ pc = "start"
    /\ LET out == preprocessResume(caller)
       IN  /\ pass1' = out
           /\ caller' = ArgumentAfter(caller, out)
    /\ pc' = "processed"
    /\ UNCHANGED <<input, pass2, again, resumeData, rendered, edits, serviceVars, submitVars>>

\* preprocessResume applied to the record it returned.
SecondPass ==
    /\ pc = "processed"
    /\ ~pass1.threw
    /\ LET out == preprocessResume(pass1.data)
       IN  /\ pass2' = out
           /\ pass1' = [pass1 EXCEPT !.data = ArgumentAfter(@, out)]
    /\ pc' = "reprocessed"
    /\ UNCHANGED <<input, caller, again, resumeData, rendered, edits, serviceVars, submitVars>>

\* preprocessResume applied once more to the caller's object, after the
\* first call or after both.
Repeat ==
    /\ pc \in {"processed", "reprocessed"}
    /\ LET out == preprocessResume(caller)
       IN  /\ again' = out
           /\ caller' = ArgumentAfter(caller, out)
    /\ pc' = "repeated"
    /\ UNCHANGED <<input, pass1, pass2, resumeData, rendered, edits, serviceVars, submitVars>>

Next == FirstPass \/ SecondPass \/ Repeat

Spec == Init /\ [][Next]_vars

---------------------------------------------------------------------------
(* Generation, editing and display of a resume *)

RenderInit ==
    /\ SubmittedInputs(input)
    /\ caller = input
    /\ pass1 = Undefined
    /\ pass2 = Undefined
    /\ again = Undefined
    /\ pc = "start"
    /\ resumeData = Undefined
    /\ rendered = Undefined
    /\ edits = 0
    /\ ServiceIdle
    /\ SubmitIdle

\* handleSubmit once the model has answered: data without a name is
\* refused; otherwise the page holds preprocessResume(data), or data itself
\* if the call raised, and the preview page parses it from the URL.
Submit ==
    /\ pc = "start"
    /\ caller.k = "obj" /\ Truthy(caller.name)
    /\ LET out == preprocessResume(caller)
       IN  /\ pass1' = out
           /\ caller' = ArgumentAfter(caller, out)
           /\ resumeData' = JsonCopy(IF out.threw THEN caller' ELSE out.data)
    /\ pc' = "shown"
    /\ UNCHANGED <<input, pass2, again, rendered, edits, serviceVars, submitVars>>

\* The user edits the resume and saves: handleSave validates the form and
\* handleEditSave stores the form data as they are.  The editor can be
\* opened again on what was saved.
EditSave ==
    /\ pc \in {"shown", "edited"}
    /\ edits < MaxEdits
    /\ \E kind \in EditKinds :
          /\ CanEdit(resumeData, kind)
          /\ validateForm(Edited(resumeData, kind))
          /\ resumeData' = Saved(Edited(resumeData, kind))
    /\ edits' = edits + 1
    /\ pc' = "edited"
    /\ UNCHANGED <<input, caller, pass1, pass2, again, rendered, serviceVars, submitVars>>

\* The preview page displays the resume in the chosen template.
Render ==
    /\ pc \in {"shown", "edited"}
    /\ \E template \in TemplateIds :
          rendered' = [template |-> template, edited |-> edits > 0,
                       view |-> renderTemplate(template, resumeData)]
    /\ pc' = "rendered"
    /\ UNCHANGED <<input, caller, pass1, pass2, again, resumeData, edits, serviceVars, submitVars>>

RenderNext == Submit \/ EditSave \/ Render

RenderSpec == RenderInit /\ [][RenderNext]_vars

---------------------------------------------------------------------------
(* ResumeService (src/pages/lib/resumeService.ts): concurrent calls on the *)
(* 'resumes' collection.  Each await of a Firestore operation is one step; *)
(* the code between two awaits runs without interruption.                  *)

\* The signed-in users (user.uid).
Users == {"alice", "bob"}

\* getDoc(doc(db, 'resumes', resumeId)): the stored document, or undefined
\* where resumeDoc.exists() is false.  Identifiers are never given twice
\* (addDoc), so a deleted document stays absent.
GetDoc(resumeId) ==
    IF resumeId <= Len(docs) /\ docs[resumeId].exists THEN docs[resumeId] ELSE Undefined

\* Mutant of Owns: the ownership comparison is left out.
OwnsAny(existingResume, userId) == TRUE

\* existingResume.userId !== userId is false (lines 70, 149, 186).
Owns(existingResume, userId) == existingResume.userId = userId

\* The resume a call writes, told apart by who wrote it and when.
Written(userId) == [by |-> userId, call |-> Len(log) + 1]

\* A call can start: the client has none in flight, and fewer than
\* MaxCalls calls were made.
CanCall(p) ==
    /\ calls[p] = Undefined
    /\ Len(log) + Cardinality({q \in Clients : calls[q] # Undefined}) < MaxCalls

\* The entry a finished call leaves: who called what on which document,
\* the userId stored on the document it met, the outcome, and whether the
\* collection changed.
Ended(op, userId, resumeId, met, result, after) ==
    [op |-> op, userId |-> userId, resumeId |-> resumeId,
     owner |-> IF met = Undefined THEN "" ELSE met.userId,
     result |-> result, changed |-> after # docs]

\* saveResume(userId, resumeData, templateId): addDoc stores the resume
\* under a new identifier with the caller's userId, or rejects.
saveResume(p) ==
    /\ CanCall(p)
    /\ Len(docs) < MaxDocs
    /\ \E userId \in Users, stored \in BOOLEAN :
          LET after == IF stored
                       THEN Append(docs, [exists |-> TRUE, userId |-> userId,
                                          resumeData |-> Written(userId)])
                       ELSE docs
          IN  /\ docs' = after
              /\ log' = Append(log, Ended("saveResume", userId, Len(docs) + 1, Undefined,
                                          IF stored THEN "ok" ELSE "error", after))
    /\ UNCHANGED <<calls, input, caller, pass1, pass2, again, pc, resumeData, rendered,
                   edits, submitVars>>

\* getResume(userId, resumeId): null for no document, an Unauthorized
\* error for a document of another user, the resume otherwise.
getResume(p) ==
    /\ CanCall(p)
    /\ \E userId \in Users, resumeId \in 1..MaxDocs :
          LET data == GetDoc(resumeId)
          IN  log' = Append(log, Ended("getResume", userId, resumeId, data,
                               IF data = Undefined THEN "null"
                               ELSE IF ~Owns(data, userId) THEN "Unauthorized"
                               ELSE "returned", docs))
    /\ UNCHANGED <<docs, calls, input, caller, pass1, pass2, again, pc, resumeData,
                   rendered, edits, submitVars>>

\* updateResume and deleteResume up to `await getDoc(resumeRef)`.
readForWrite(p) ==
    /\ CanCall(p)
    /\ \E op \in {"updateResume", "deleteResume"}, userId \in Users, resumeId \in 1..MaxDocs :
          calls' = [calls EXCEPT ![p] = [op |-> op, userId |-> userId,
                                         resumeId |-> resumeId,
                                         resumeDoc |-> GetDoc(resumeId)]]
    /\ UNCHANGED <<docs, log, input, caller, pass1, pass2, again, pc, resumeData,
                   rendered, edits, submitVars>>

\* updateResume from the ownership check on: 'Resume not found',
\* 'Unauthorized', or updateDoc with name, title, resumeData, updatedAt and
\* templateId (userId is not among the fields written).  updateDoc rejects
\* when the document is gone by then.
updateResume(p) ==
    /\ calls[p] # Undefined /\ calls[p].op = "updateResume"
    /\ LET c     == calls[p]
           now   == GetDoc(c.resumeId)
           write == c.resumeDoc # Undefined /\ Owns(c.resumeDoc, c.userId)
           after == IF write /\ now # Undefined
                    THEN [docs EXCEPT ![c.resumeId].resumeData = Written(c.userId)]
                    ELSE docs
       IN  /\ docs' = after
           /\ log' = Append(log, Ended("updateResume", c.userId, c.resumeId, c.resumeDoc,
                               IF c.resumeDoc = Undefined THEN "not found"
                               ELSE IF ~Owns(c.resumeDoc, c.userId) THEN "Unauthorized"
                               ELSE IF now = Undefined THEN "error" ELSE "ok", after))
    /\ calls' = [calls EXCEPT ![p] = Undefined]
    /\ UNCHANGED <<input, caller, pass1, pass2, again, pc, resumeData, rendered, edits,
                   submitVars>>

\* deleteResume from the ownership check on: 'Resume not found',
\* 'Unauthorized', or deleteDoc (which succeeds on an absent document).
deleteResume(p) ==
    /\ calls[p] # Undefined /\ calls[p].op = "deleteResume"
    /\ LET c     == calls[p]
           write == c.resumeDoc # Undefined /\ Owns(c.resumeDoc, c.userId)
           after == IF write /\ GetDoc(c.resumeId) # Undefined
                    THEN [docs EXCEPT ![c.resumeId].exists = FALSE]
                    ELSE docs
       IN  /\ docs' = after
           /\ log' = Append(log, Ended("deleteResume", c.userId, c.resumeId, c.resumeDoc,
                               IF c.resumeDoc = Undefined THEN "not found"
                               ELSE IF ~Owns(c.resumeDoc, c.userId) THEN "Unauthorized"
                               ELSE "ok", after))
    /\ calls' = [calls EXCEPT ![p] = Undefined]
    /\ UNCHANGED <<input, caller, pass1, pass2, again, pc, resumeData, rendered, edits,
                   submitVars>>

ServiceInit ==
    /\ input = Undefined
    /\ caller = Undefined
    /\ pass1 = Undefined
    /\ pass2 = Undefined
    /\ again = Undefined
    /\ pc = "start"
    /\ resumeData = Undefined
    /\ rendered = Undefined
    /\ edits = 0
    /\ ServiceIdle
    /\ SubmitIdle

ServiceNext ==
    \E p \in Clients :
        \/ saveResume(p)
        \/ getResume(p)
        \/ readForWrite(p)
        \/ updateResume(p)
        \/ deleteResume(p)

ServiceSpec == ServiceInit /\ [][ServiceNext]_vars

---------------------------------------------------------------------------
(* HomeContent.handleSubmit (src/unnamed/part_002 lines 397-489): the code *)
(* between two awaits is one step; `input` is payload.data of the answer.  *)

\* A message given to setErrorMsg.
Message(text) == Str(<<[c |-> text, n |-> 1]>>)

\* The answers of /api/generateResume: malformed and well-formed resumes,
\* no data, and a resume without a name.
SubmitInputs(in) ==
    \/ MalformedInputs(in)
    \/ in \in {Undefined, Null, SmallResume}
    \/ \E missing \in {Undefined, Null, Str(<<>>)} : in = Without(SmallResume, {"name"}, missing)

SubmitInit ==
    /\ SubmitInputs(input)
    /\ caller = input
    /\ pass1 = Undefined
    /\ pass2 = Undefined
    /\ again = Undefined
    /\ pc = "start"
    /\ resumeData = Null
    /\ rendered = Undefined
    /\ edits = 0
    /\ ServiceIdle
    /\ SubmitIdle

\* Mutant of Finally: the timer is cleared but loading is left as it is.
FinallyKeepsLoading == timer' = "cleared" /\ loading' = loading

\* finally { clearTimeout(timeoutId); setLoading(false); } (lines 485-488):
\* after clearTimeout the timer is not pending, whether it had fired or not.
Finally == timer' = "cleared" /\ loading' = FALSE

\* The click: the three early returns (lines 400-411), or setLoading(true),
\* the 30 s timer and the fetch (lines 413-433).
handleSubmit ==
    /\ pc = "start"
    /\ \E filled \in BOOLEAN :
          IF filled
          THEN /\ errorMsg' = Null
               /\ loading' = TRUE
               /\ timer' = "armed"
               /\ pc' = "fetching"
          ELSE /\ errorMsg' = Message("Please select a template.")
               /\ pc' = "returned"
               /\ UNCHANGED <<loading, timer>>
    /\ UNCHANGED <<input, caller, pass1, pass2, again, resumeData, rendered, edits,
                   serviceVars, navigated, resp>>

\* fetch resolves with a response, OK or not, and resp.json() is awaited.
fetchResolved ==
    /\ pc = "fetching" /\ timer = "armed"
    /\ \E ok \in BOOLEAN : resp' = [k |-> "obj", ok |-> ok]
    /\ pc' = "parsing"
    /\ UNCHANGED <<input, caller, pass1, pass2, again, resumeData, rendered, edits,
                   serviceVars, loading, timer, errorMsg, navigated>>

\* fetch rejects for a network error: the outer catch (lines 481-484).
fetchRejected ==
    /\ pc = "fetching" /\ timer = "armed"
    /\ errorMsg' = Message("Failed to fetch")
    /\ Finally
    /\ pc' = "returned"
    /\ UNCHANGED <<input, caller, pass1, pass2, again, resumeData, rendered, edits,
                   serviceVars, navigated, resp>>

\* The timer callback after 30 s: controller.abort() (line 416).
timerFires ==
    /\ timer = "armed"
    /\ timer' = "fired"
    /\ UNCHANGED <<input, caller, pass1, pass2, again, pc, resumeData, rendered, edits,
                   serviceVars, loading, errorMsg, navigated, resp>>

\* The aborted signal rejects what is awaited with an AbortError: the fetch
\* (outer catch, lines 478-480) or the reading of the body (inner catch,
\* lines 438-442).
abortRejects ==
    /\ timer = "fired" /\ pc \in {"fetching", "parsing"}
    /\ errorMsg' = IF pc = "fetching"
                   THEN Message("Request timed out. Please try again.")
                   ELSE Message("Unexpected response from server.")
    /\ Finally
    /\ pc' = "returned"
    /\ UNCHANGED <<input, caller, pass1, pass2, again, resumeData, rendered, edits,
                   serviceVars, navigated, resp>>

\* resp.json() rejects: the body is no JSON (lines 438-442).
jsonRejected ==
    /\ pc = "parsing" /\ timer = "armed"
    /\ errorMsg' = Message("Unexpected response from server.")
    /\ Finally
    /\ pc' = "returned"
    /\ UNCHANGED <<input, caller, pass1, pass2, again, resumeData, rendered, edits,
                   serviceVars, navigated, resp>>

\* resp.json() resolves (lines 444-476): a non-OK response and data without
\* a name show an error; otherwise the page stores preprocessResume(data),
\* or data itself if the call raised, and navigates to the preview with it.
jsonResolved ==
    /\ pc = "parsing" /\ timer = "armed"
    /\ IF ~resp.ok
       THEN /\ errorMsg' = Message("Server returned")
            /\ UNCHANGED <<caller, pass1, resumeData, navigated>>
       ELSE IF ~(input.k = "obj" /\ Truthy(input.name))
       THEN /\ errorMsg' = Message("Model returned invalid resume data.")
            /\ UNCHANGED <<caller, pass1, resumeData, navigated>>
       ELSE LET out == preprocessResume(caller)
                shown == IF out.threw THEN ArgumentAfter(caller, out) ELSE out.data
            IN  /\ pass1' = out
                /\ caller' = ArgumentAfter(caller, out)
                /\ resumeData' = shown
                /\ navigated' = JsonCopy(shown)
                /\ UNCHANGED errorMsg
    /\ Finally
    /\ pc' = "returned"
    /\ UNCHANGED <<input, pass2, again, rendered, edits, serviceVars, resp>>

SubmitNext ==
    \/ handleSubmit
    \/ fetchResolved
    \/ fetchRejected
    \/ timerFires
    \/ abortRejects
    \/ jsonRejected
    \/ jsonResolved

SubmitSpec == SubmitInit /\ [][SubmitNext]_vars

\* The event loop runs a timer callback that is due and the continuation of
\* a promise that was rejected; the network owes no answer.
SubmitFair == SubmitSpec /\ WF_vars(timerFires) /\ WF_vars(abortRejects)

---------------------------------------------------------------------------
(* Properties *)

\* The first call has ended / has returned a record.
Done1     == pc \in {"processed", "reprocessed"}
Returned1 == Done1 /\ ~pass1.threw
Returned2 == pc = "reprocessed" /\ ~pass2.threw

\* The input is a record (not null or undefined).
IsRecord(in) == in.k = "obj"

ListFields ==
    {"experience", "education", "certifications", "achivements", "volunteer",
     "skills", "softSkills", "languages"}
EntryFields == {"experience", "education", "certifications", "volunteer"}

\* A text stands where a list is expected.
TextWhereList(in) == \E f \in ListFields : in[f].k = "str"

\* A list of entries holds a null entry.
NullEntry(in) ==
    \E f \in EntryFields :
        in[f].k = "arr" /\ \E i \in 1..Len(in[f].v) : in[f].v[i].k \in {"null", "undef"}

\* An experience or volunteer entry has a text as its description.
TextDescription(in) ==
    \E f \in {"experience", "volunteer"} :
        in[f].k = "arr" /\ \E i \in 1..Len(in[f].v) :
            in[f].v[i].k = "obj" /\ in[f].v[i].description.k = "str"

\* Every list that is present is a list, of entries that are records whose
\* descriptions, when present, are lists.
WellFormed(in) ==
    IsRecord(in) => ~TextWhereList(in) /\ ~NullEntry(in) /\ ~TextDescription(in)

\* The elements of a sequence, as a set.
Range(a) == {a[i] : i \in 1..Len(a)}

\* C1: the record returned by preprocessResume has at most
\* _layout.maxExperienceItems experience entries, at most
\* _layout.maxEducationItems education entries, and at most
\* _layout.maxBulletsPerExp bullets in every experience entry it retains.
C1_CapsRespected ==
    Returned1 =>
        LET d == pass1.data
        IN  /\ Len(d.experience.v) <= d._layout.maxExperienceItems
            /\ Len(d.education.v) <= d._layout.maxEducationItems
            /\ \A i \in 1..Len(d.experience.v) :
                   Len(d.experience.v[i].description.v) <= d._layout.maxBulletsPerExp

\* C1 witness: an input with more experience entries, more education entries
\* and more bullets than the caps has been cut down to exactly the caps.
C1_Witness ==
    /\ Returned1 /\ IsRecord(input)
    /\ IsArray(input.experience) /\ IsArray(input.education)
    /\ Len(input.experience.v) > pass1.data._layout.maxExperienceItems
    /\ Len(input.education.v) > pass1.data._layout.maxEducationItems
    /\ Len(pass1.data.experience.v) = pass1.data._layout.maxExperienceItems
    /\ Len(pass1.data.education.v) = pass1.data._layout.maxEducationItems
    /\ IsArray(input.experience.v[1].description)
    /\ Len(input.experience.v[1].description.v) > pass1.data._layout.maxBulletsPerExp
    /\ Len(pass1.data.experience.v[1].description.v) = pass1.data._layout.maxBulletsPerExp

\* C2: the achievements of the returned record number at most achCap (6 in
\* compact mode, 12 otherwise) and no string occurs twice among them.
C2_AchievementsCappedDistinct ==
    Returned1 =>
        LET a == pass1.data.achivements.v
        IN  /\ Len(a) <= (IF pass1.data._layout.compactMode THEN 6 ELSE 12)
            /\ \A i, j \in 1..Len(a) : i # j => a[i] # a[j]

\* C2 witness: existing achievements with a repeated string, together with
\* overflow, have filled the list to the cap, in compact and in normal mode.
C2_Witness ==
    /\ Returned1 /\ IsRecord(input) /\ IsArray(input.achivements)
    /\ \E i, j \in 1..Len(input.achivements.v) :
           i # j /\ StrTrim(OrEmpty(input.achivements.v[i])) # <<>>
                 /\ StrTrim(OrEmpty(input.achivements.v[i]))
                      = StrTrim(OrEmpty(input.achivements.v[j]))
    /\ pass1.data._layout.compactMode
    /\ Len(pass1.data.achivements.v) = 6

\* The condensed strings of the entries the first call removed from the
\* tails of experience and education.
RemovedCondensed ==
    LET in  == JsonCopy(input)
        lay == pass1.data._layout
        exp == OrEmptyArr(in.experience)
        edu == OrEmptyArr(in.education)
    IN  {ExpOverflowEntry(exp[i], lay.maxBulletsPerExp) :
             i \in (lay.maxExperienceItems + 1)..Len(exp)}
        \cup {EduOverflowEntry(edu[i]) : i \in (lay.maxEducationItems + 1)..Len(edu)}

\* The achievements of the returned record, as a set of texts.
ReturnedAchievements == {x.v : x \in Range(pass1.data.achivements.v)}

\* C3 as claimed: every entry removed from the tail of experience or
\* education is represented by its condensed string in the returned
\* achievements.
C3_OverflowNeverDropped ==
    Returned1 => RemovedCondensed \subseteq ReturnedAchievements

\* C3 as amended: a removed entry's condensed string is in the returned
\* achievements unless the list is full (it holds achCap strings).
C3_OverflowKeptUpToCap ==
    Returned1 =>
        \/ RemovedCondensed \subseteq ReturnedAchievements
        \/ Len(pass1.data.achivements.v) = achCap(pass1.data._layout.compactMode)

\* C3 witness: eight experience entries in compact mode, three kept and the
\* five removed ones all present, condensed, in the achievements.
C3_Witness ==
    /\ Returned1 /\ IsRecord(input) /\ IsArray(input.experience)
    /\ Len(input.experience.v) = 8
    /\ pass1.data._layout.compactMode
    /\ Len(pass1.data.experience.v) = 3
    /\ Cardinality(RemovedCondensed) >= 5
    /\ RemovedCondensed \subseteq ReturnedAchievements

\* The input with every absent or null top-level field replaced by its
\* default: "" for name, title and summary, [] for the lists.
Defaulted(in) ==
    LET r == IF IsRecord(in) THEN in ELSE EmptyResume
    IN  [f \in DOMAIN r |->
           IF f \in TopFields /\ r[f].k \in {"undef", "null"}
           THEN IF f \in {"name", "title", "summary"} THEN Str(<<>>)
                ELSE IF f \in ListFields THEN Arr(<<>>) ELSE r[f]
           ELSE r[f]]

\* The fields preprocessResume rewrites.
RewrittenFields ==
    {"experience", "education", "certifications", "achivements", "skills",
     "softSkills", "languages", "_layout"}

\* C4: for an input whose top-level fields are absent or null in any subset
\* (or that is itself null or undefined) and whose present lists are well
\* formed, preprocessResume raises nothing, the record carries _layout, and
\* the layout and every rewritten list are those of the input with "" and []
\* in place of the missing fields.
C4_MissingFieldsDefault ==
    Done1 /\ WellFormed(input) =>
        /\ ~pass1.threw
        /\ "compactMode" \in DOMAIN pass1.data._layout
        /\ LET ref == preprocessResume(Defaulted(input))
           IN  /\ ~ref.threw
               /\ \A f \in RewrittenFields : pass1.data[f] = ref.data[f]

\* C4 witness: a record whose twelve top-level fields are all null has been
\* processed into empty lists and a layout.
C4_Witness ==
    /\ Returned1 /\ IsRecord(input)
    /\ \A f \in TopFields : input[f] = Null
    /\ pass1.data.experience = Arr(<<>>)
    /\ pass1.data.achivements = Arr(<<>>)
    /\ pass1.data._layout.nameFontSize = baseName

\* A list of strings holds a null element.
NullString(in) ==
    \E f \in {"achivements", "skills", "softSkills", "languages"} :
        in[f].k = "arr" /\ \E i \in 1..Len(in[f].v) : in[f].v[i].k \in {"null", "undef"}

\* The input has a malformed nested shape.
Malformed(in) ==
    IsRecord(in) /\ (TextWhereList(in) \/ NullEntry(in) \/ TextDescription(in)
                     \/ NullString(in))

\* The input with [] in place of every text that stands for a list.
Repaired(in) ==
    LET fix(x) == IF x.k = "str" THEN Arr(<<>>) ELSE x
        fixEntries(x) ==
            IF x.k = "arr"
            THEN Arr([i \in 1..Len(x.v) |->
                        IF x.v[i].k = "obj"
                        THEN [x.v[i] EXCEPT !.description = fix(@)] ELSE x.v[i]])
            ELSE fix(x)
    IN  [f \in DOMAIN in |->
           IF f \in {"experience", "volunteer"} THEN fixEntries(in[f])
           ELSE IF f \in ListFields THEN fix(in[f]) ELSE in[f]]

\* C5 as claimed: for an input with a malformed nested shape (a description
\* that is no list, a list field that is no list, a list holding a null
\* entry) preprocessResume raises no exception, and a text standing for a
\* list is treated as the empty list.
C5_MalformedCoerced ==
    Done1 /\ Malformed(input) =>
        /\ ~pass1.threw
        /\ ~NullEntry(input) =>
              \A f \in RewrittenFields :
                  pass1.data[f] = preprocessResume(Repaired(input)).data[f]

\* The density of the input, and of the record the first call returned.
Total1 == totalChars(JsonCopy(input))
Total2 == totalChars(JsonCopy(pass1.data))
NameLen1 == StrLen(OrEmpty(JsonCopy(input).name))

\* C6: every value of _layout.sectionFontSizes lies in its window
\* (sectionTitle 10..18, body 9..14, sidebarTitle 9..14, sidebarBody 8..12,
\* duration 8..12) and nameFontSize, also reported as sectionFontSizes.name,
\* lies in 16..48.
C6_FontWindows ==
    Returned1 =>
        LET lay == pass1.data._layout
            f   == lay.sectionFontSizes
        IN  /\ f.sectionTitle \in 10..18
            /\ f.body \in 9..14
            /\ f.sidebarTitle \in 9..14
            /\ f.sidebarBody \in 8..12
            /\ f.duration \in 8..12
            /\ lay.nameFontSize \in 16..48
            /\ f.name = lay.nameFontSize

\* C6 witness: a dense resume with a long name, where the rounded values
\* fall below the windows and the lower limits are what is returned.
C6_Witness ==
    /\ Returned1
    /\ Total1 >= 7347 /\ NameLen1 > 72
    /\ pass1.data._layout.nameFontSize = 16
    /\ pass1.data._layout.sectionFontSizes.body = 9
    /\ pass1.data._layout.sectionFontSizes.sidebarTitle = 9
    /\ pass1.data._layout.sectionFontSizes.sidebarBody = 8
    /\ pass1.data._layout.sectionFontSizes.duration = 8

\* The scale [a, d, b], that is a / (d * sqrt(b)), lies in [0.70, 1.0].
ScaleInRange(gs) ==
    /\ 100 * gs.a * gs.a >= 49 * gs.d * gs.d * gs.b
    /\ gs.a * gs.a <= gs.d * gs.d * gs.b

\* The font size f is between 0.70 and 1.0 times its base value.
WithinScale(f, base) == 10 * f >= 7 * base /\ f <= base

\* The five section font sizes are within [0.70, 1.0] of their base values.
SectionFontsWithinScale(f) ==
    /\ WithinScale(f.sectionTitle, baseSectionTitle)
    /\ WithinScale(f.body, baseBody)
    /\ WithinScale(f.sidebarTitle, baseSidebarTitle)
    /\ WithinScale(f.sidebarBody, baseSidebarBody)
    /\ WithinScale(f.duration, baseDuration)

C8_CompactIffAbove2200 ==
    Returned1 => (pass1.data._layout.compactMode <=> Total1 > 2200)

\* C8 witness: a resume of exactly 2200 characters is not compact.
C8_Witness ==
    Returned1 /\ Total1 = 2200 /\ ~pass1.data._layout.compactMode

\* The second call sees no more content, is compact only if the first was,
\* and has no cap below the first call's.
SecondPassNoTighter ==
    LET l1 == pass1.data._layout
        l2 == pass2.data._layout
    IN  /\ Total2 <= Total1
        /\ l2.compactMode => l1.compactMode
        /\ l2.maxExperienceItems >= l1.maxExperienceItems
        /\ l2.maxBulletsPerExp >= l1.maxBulletsPerExp
        /\ l2.maxEducationItems >= l1.maxEducationItems
        /\ l2.truncateCharPerLine >= l1.truncateCharPerLine

\* The first call moved no experience or education entry into achievements.
NoOverflow1 ==
    LET in == JsonCopy(input)
    IN  /\ Len(OrEmptyArr(in.experience)) <= pass1.data._layout.maxExperienceItems
        /\ Len(OrEmptyArr(in.education)) <= pass1.data._layout.maxEducationItems

\* C9 as claimed: for every input x with y = preprocessResume(x),
\* totalChars of y is at most totalChars of x, the second pass is compact
\* only if the first was, and no cap is smaller in the second pass.
C9_SecondPassNeverTighter ==
    Returned2 => SecondPassNoTighter

\* C9 as amended: the same, for every input whose first pass moves no
\* experience or education entry into achievements.
C9_NoOverflowNeverTighter ==
    Returned2 /\ NoOverflow1 => SecondPassNoTighter

\* C9 witness: a compact first pass without overflow whose output is
\* shorter and is processed in normal mode by the second pass.
C9_Witness ==
    /\ Returned2 /\ NoOverflow1
    /\ Total2 < Total1
    /\ pass1.data._layout.compactMode
    /\ ~pass2.data._layout.compactMode
    /\ pass2.data._layout.truncateCharPerLine > pass1.data._layout.truncateCharPerLine

\* Every bullet of every experience entry of y is in z at the same position
\* with a length not below its length in y.
BulletsKept ==
    LET y == pass1.data.experience.v
        z == pass2.data.experience.v
    IN  \A i \in 1..Len(y) :
            /\ i <= Len(z)
            /\ \A j \in 1..Len(y[i].description.v) :
                   /\ j <= Len(z[i].description.v)
                   /\ StrLen(z[i].description.v[j].v) >= StrLen(y[i].description.v[j].v)

\* C10 as claimed: a second pass does not re-truncate, for every input.
C10_NoRetruncation ==
    Returned2 => BulletsKept

\* C10 as amended: a second pass does not re-truncate unless it is compact
\* where the first pass was not.
C10_NoRetruncationSameMode ==
    Returned2 /\ (pass2.data._layout.compactMode => pass1.data._layout.compactMode)
        => BulletsKept

\* C10 witness: a bullet the first pass truncated (it ends with the
\* ellipsis) is returned unchanged by the second pass.
C10_Witness ==
    /\ Returned2
    /\ Len(pass1.data.experience.v) > 0
    /\ Len(pass1.data.experience.v[1].description.v) > 0
    /\ LET b == pass1.data.experience.v[1].description.v[1].v
       IN  /\ b # <<>> /\ b[Len(b)].c = "ELLIPSIS"
           /\ StrLen(b) = pass1.data._layout.truncateCharPerLine - 1
           /\ pass2.data.experience.v[1].description.v[1].v = b

\* C11: with y = preprocessResume(x) and z = preprocessResume(y), the
\* achievements of z are no more than the cap of the first pass: 6 if
\* y._layout.compactMode, else 12.
C11_SecondPassWithinFirstCap ==
    Returned2 =>
        Len(pass2.data.achivements.v)
            <= (IF pass1.data._layout.compactMode THEN 6 ELSE 12)

\* C11 witness: a compact first pass filled the achievements to its cap of
\* 6 and removed entries; the second pass is normal, with the cap 12, and
\* still returns 6 achievements.
C11_Witness ==
    /\ Returned2
    /\ pass1.data._layout.compactMode
    /\ ~pass2.data._layout.compactMode
    /\ Len(JsonCopy(input).experience.v) > 3
    /\ Len(pass1.data.achivements.v) = 6
    /\ Len(pass2.data.achivements.v) = 6

\* A later call on the caller's object has ended.
Repeated == pc = "repeated"

Texts(x) == [i \in 1..Len(x.v) |-> x.v[i].v]

\* The string elements of an input list as they are, and trimmed.
RawTexts(x) ==
    IF IsArray(x)
    THEN LET s == SelectSeq(x.v, LAMBDA e : e.k = "str")
         IN  [i \in 1..Len(s) |-> s[i].v]
    ELSE <<>>
TrimmedTexts(x) == [i \in 1..Len(RawTexts(x)) |-> StrTrim(RawTexts(x)[i])]

\* The position at which the text s occurs first in t.
FirstAt(t, s) == CHOOSE i \in 1..Len(t) : t[i] = s /\ \A j \in 1..(i - 1) : t[j] # s

Smaller(a, b) == IF a < b THEN a ELSE b

\* out is the first `cap` elements of the first-occurrence deduplication of
\* the texts t other than those in `skipped`: its elements occur in t, in
\* the order of their first occurrences and so without repeats, none
\* before them is left out, and there are as many as the cap allows.
IsDedupCapped(out, t, skipped, cap) ==
    /\ \A i \in 1..Len(out) : out[i] \notin skipped /\ \E j \in 1..Len(t) : t[j] = out[i]
    /\ \A i \in 1..Len(out) : \A j \in (i + 1)..Len(out) :
           FirstAt(t, out[i]) < FirstAt(t, out[j])
    /\ \A i \in 1..Len(out) : \A j \in 1..(FirstAt(t, out[i]) - 1) :
           t[j] \in skipped \/ \E m \in 1..Len(out) : out[m] = t[j]
    /\ Len(out) = Smaller(cap, Cardinality(Range(t) \ skipped))

\* certifications is cut to 20 entries in both modes.
CertificationsCapped ==
    LET c == JsonCopy(input).certifications
    IN  Len(pass1.data.certifications.v) = Smaller(20, Len(OrEmptyArr(c)))

\* C14 as claimed: skills, softSkills and languages of the returned record
\* are the first-occurrence deduplication of the input list as it is,
\* capped to 30/12/8 (normal) or 12/6/3 (compact); certifications is capped
\* to 20.
C14_DedupOfInputList ==
    Returned1 =>
        LET in == JsonCopy(input)
            cm == pass1.data._layout.compactMode
            o  == pass1.data
        IN  /\ IsDedupCapped(Texts(o.skills), RawTexts(in.skills), {}, IF cm THEN 12 ELSE 30)
            /\ IsDedupCapped(Texts(o.softSkills), RawTexts(in.softSkills), {}, IF cm THEN 6 ELSE 12)
            /\ IsDedupCapped(Texts(o.languages), RawTexts(in.languages), {}, IF cm THEN 3 ELSE 8)
            /\ CertificationsCapped

\* C14 as amended: they are the first-occurrence deduplication of the
\* trimmed elements of the input list, empty strings left out, capped to
\* 30/12/8 (normal) or 12/6/3 (compact); certifications is capped to 20.
C14_DedupOfTrimmedList ==
    Returned1 =>
        LET in == JsonCopy(input)
            cm == pass1.data._layout.compactMode
            o  == pass1.data
        IN  /\ IsDedupCapped(Texts(o.skills), TrimmedTexts(in.skills), {<<>>},
                             IF cm THEN 12 ELSE 30)
            /\ IsDedupCapped(Texts(o.softSkills), TrimmedTexts(in.softSkills), {<<>>},
                             IF cm THEN 6 ELSE 12)
            /\ IsDedupCapped(Texts(o.languages), TrimmedTexts(in.languages), {<<>>},
                             IF cm THEN 3 ELSE 8)
            /\ CertificationsCapped

\* C14 witness: more than 30 distinct skills with repeats, in normal mode,
\* came back as 30 skills, and 21 certifications as 20.
C14_Witness ==
    /\ Returned1 /\ IsRecord(input)
    /\ ~pass1.data._layout.compactMode
    /\ IsArray(input.skills) /\ Len(input.skills.v) > MaxSkills
    /\ Len(pass1.data.skills.v) = 30
    /\ Len(pass1.data.softSkills.v) = 12
    /\ Len(pass1.data.languages.v) = 8
    /\ Len(pass1.data.certifications.v) = 20

\* What was displayed stays within the hints of the record displayed.
ViewWithinHints ==
    LET l == resumeData._layout
        v == rendered.view
    IN  /\ Len(v.experience) <= l.maxExperienceItems
        /\ Len(v.education) <= l.maxEducationItems
        /\ \A i \in 1..Len(v.experience) :
               /\ Len(v.experience[i]) <= l.maxBulletsPerExp
               /\ \A j \in 1..Len(v.experience[i]) :
                      StrLen(v.experience[i][j]) <= l.truncateCharPerLine

\* C15 as claimed: for any record carrying _layout, each of the three
\* templates displays at most maxExperienceItems experience entries, at
\* most maxBulletsPerExp bullets per entry and at most maxEducationItems
\* education entries, and no bullet longer than truncateCharPerLine.
C15_TemplatesHonourCaps ==
    (pc = "rendered" /\ "compactMode" \in DOMAIN resumeData._layout)
        => ViewWithinHints

RECURSIVE SumRange(_, _, _)
\* nums[lo] + ... + nums[hi] (summed by halves).
SumRange(nums, lo, hi) ==
    IF lo > hi THEN 0
    ELSE IF lo = hi THEN nums[lo]
    ELSE LET mid == (lo + hi) \div 2
         IN  SumRange(nums, lo, mid) + SumRange(nums, mid + 1, hi)

\* The length of parts joined by single spaces.
JoinedLen(nums) == IF nums = <<>> THEN 0 ELSE SumRange(nums, 1, Len(nums)) + Len(nums) - 1

\* len(field): the characters of a field, none if it is missing or null.
FieldLen(x) == IF x.k = "str" THEN StrLen(x.v) ELSE 0

\* The length of a list of strings joined by single spaces.
ListLen(x) == JoinedLen([i \in 1..Len(OrEmptyArr(x)) |-> FieldLen(OrEmptyArr(x)[i])])

\* The length of the entries of a list joined by single spaces, each entry
\* being its `fields` and, where `withDescription`, its joined description,
\* joined by single spaces.
EntriesLen(x, fields, withDescription) ==
    LET a == OrEmptyArr(x)
    IN  JoinedLen([i \in 1..Len(a) |->
            JoinedLen([j \in 1..Len(fields) |-> FieldLen(a[i][fields[j]])]
                      \o (IF withDescription THEN <<ListLen(a[i].description)>> ELSE <<>>))])

\* The density as the sum the claim describes.
StatedTotal(data) ==
    LET certs == OrEmptyArr(data.certifications)
    IN  FieldLen(data.name) + FieldLen(data.title) + FieldLen(data.summary)
        + EntriesLen(data.experience, <<"role", "company", "duration">>, TRUE)
        + EntriesLen(data.education, <<"degree", "school", "year">>, FALSE)
        + ListLen(data.skills) + ListLen(data.softSkills)
        + ListLen(data.achivements) + ListLen(data.languages)
        + JoinedLen([i \in 1..Len(certs) |->
                        FieldLen(certs[i].name) + FieldLen(certs[i].year)])
        + EntriesLen(data.volunteer, <<"role", "org">>, TRUE)

\* Every entry of experience, education and volunteer has all the fields
\* that the density reads.
EntriesComplete(data) ==
    /\ \A i \in 1..Len(OrEmptyArr(data.experience)) :
           \A f \in {"role", "company", "duration"} : data.experience.v[i][f].k = "str"
    /\ \A i \in 1..Len(OrEmptyArr(data.education)) :
           \A f \in {"degree", "school", "year"} : data.education.v[i][f].k = "str"
    /\ \A i \in 1..Len(OrEmptyArr(data.volunteer)) :
           \A f \in {"role", "org"} : data.volunteer.v[i][f].k = "str"

\* C16 as claimed: totalChars is len(name) + len(title) + len(summary) plus
\* the lengths of the experience, education, certification and volunteer
\* texts and of the joined skills, softSkills, achievements and languages,
\* an entry being its fields, and fields, list elements and entries being
\* joined by single spaces (name and year of a certification by nothing);
\* contact and the duration of a volunteer entry contribute nothing.
C16_TotalCharsIsStatedSum ==
    Returned1 => Total1 = StatedTotal(JsonCopy(input))

\* The entries of x with every missing or null field of `fields` set to "".
Blanked(x, fields) ==
    IF IsArray(x)
    THEN Arr([i \in 1..Len(x.v) |->
                [f \in DOMAIN x.v[i] |->
                    IF f \in fields /\ x.v[i][f].k \in {"undef", "null"}
                    THEN Str(<<>>) ELSE x.v[i][f]]])
    ELSE x

\* The record with the missing fields of its entries written as "".
BlankedEntries(data) ==
    [data EXCEPT !.experience = Blanked(@, {"role", "company", "duration"}),
                 !.education  = Blanked(@, {"degree", "school", "year"}),
                 !.volunteer  = Blanked(@, {"role", "org"})]

\* C17 as claimed: a missing or null role, company, duration, degree,
\* school, year or org contributes no character to totalChars: the density
\* is that of the record with "" written in its place.
C17_MissingFieldCountsNothing ==
    Returned1 => Total1 = totalChars(BlankedEntries(JsonCopy(input)))

\* The text s begins with the text p.
StartsWith(s, p) == StrSlice0(s, StrLen(p)) = p

\* The experience and education entries of the copied input, and the
\* pending overflow strings the first call built from them.
InExperience == ListProp(JsonCopy(input).experience)
InEducation  == ListProp(JsonCopy(input).education)
PendingExp   == ExpExtras(InExperience, pass1.data._layout.compactMode)
PendingEdu   == EduExtras(InEducation, pass1.data._layout.compactMode)

\* C18: when experience.length > maxExperienceItems the entries kept are
\* the first maxExperienceItems input entries in their order (their role,
\* company and duration as given), and the pending list has one condensed
\* string per removed entry, in the order of the tail, each beginning with
\* "{role} — {company}" of its entry; likewise education with
\* maxEducationItems, the entries kept being unchanged and each string
\* beginning with "{degree} — {school}".
C18_HeadKeptTailCondensed ==
    Returned1 =>
        LET maxExp == pass1.data._layout.maxExperienceItems
            maxEdu == pass1.data._layout.maxEducationItems
            outExp == pass1.data.experience.v
        IN  /\ Len(InExperience) > maxExp =>
                /\ Len(outExp) = maxExp
                /\ \A i \in 1..maxExp : \A f \in {"role", "company", "duration"} :
                       outExp[i][f] = InExperience[i][f]
                /\ Len(PendingExp) = Len(InExperience) - maxExp
                /\ \A i \in 1..Len(PendingExp) :
                       StartsWith(PendingExp[i],
                           StrTrim(Cat(OrEmpty(InExperience[maxExp + i].role),
                                       Cat(DashSep, OrEmpty(InExperience[maxExp + i].company)))))
            /\ Len(InEducation) > maxEdu =>
                /\ pass1.data.education.v = SubSeq(InEducation, 1, maxEdu)
                /\ Len(PendingEdu) = Len(InEducation) - maxEdu
                /\ \A i \in 1..Len(PendingEdu) :
                       StartsWith(PendingEdu[i],
                           StrTrim(Cat(OrEmpty(InEducation[maxEdu + i].degree),
                                       Cat(DashSep, OrEmpty(InEducation[maxEdu + i].school)))))

\* C18 witness: a compact first pass on 8 experience and 7 education
\* entries kept 3 and 2 and condensed the other 5 and 5.
C18_Witness ==
    /\ Returned1
    /\ pass1.data._layout.compactMode
    /\ Len(InExperience) = MaxExperience /\ Len(InEducation) = MaxEducation
    /\ Len(pass1.data.experience.v) = 3 /\ Len(pass1.data.education.v) = 2
    /\ Len(PendingExp) = MaxExperience - 3 /\ Len(PendingEdu) = MaxEducation - 2
    /\ InExperience[4].role.k = "str"
    /\ StartsWith(PendingExp[1], Cat(InExperience[4].role.v, DashSep))

\* The existing achievements of the copied input, each trimmed (null as
\* ""), followed by the pending overflow strings.
UnionTexts ==
    LET ach == JsonCopy(input).achivements
    IN  (IF IsArray(ach) THEN [i \in 1..Len(ach.v) |-> StrTrim(OrEmpty(ach.v[i]))] ELSE <<>>)
        \o PendingExp \o PendingEdu

\* C19 as claimed: the final achievements are the first achCap elements of
\* the first-occurrence deduplication of the trimmed existing achievements
\* in input order, then the experience overflow strings, then the
\* education overflow strings.
C19_FirstOfDedupUnion ==
    Returned1 =>
        IsDedupCapped(Texts(pass1.data.achivements), UnionTexts, {},
                      IF pass1.data._layout.compactMode THEN 6 ELSE 12)

\* C19 as amended: the same, the empty strings being left out of the
\* deduplicated union before it is cut to achCap.
C19_FirstOfDedupUnionNonEmpty ==
    Returned1 =>
        IsDedupCapped(Texts(pass1.data.achivements), UnionTexts, {<<>>},
                      IF pass1.data._layout.compactMode THEN 6 ELSE 12)

\* C19 witness: existing achievements with a repeat and blanks, one
\* experience and one education overflow string, returned in that order
\* without the repeat and the blanks.
C19_Witness ==
    /\ Returned1
    /\ Len(PendingExp) > 0 /\ Len(PendingEdu) > 0
    /\ Len(UnionTexts) > Len(pass1.data.achivements.v)
    /\ Texts(pass1.data.achivements)
         = <<Fill("a", 2), StrTrim(DashSep)>> \o PendingExp \o PendingEdu

\* `body` is the text s with its trailing whitespace removed.
IsWithoutTrailingSpace(body, s) ==
    /\ body = <<>> \/ body[Len(body)].c # SPACE
    /\ s = Cat(body, Fill(SPACE, StrLen(s) - StrLen(body)))

\* The returned bullet `out` is the trimmed bullet t, cut if longer than n:
\* the first n - 1 characters of t without trailing whitespace, then one
\* ellipsis.
IsTruncationOf(out, t, n) ==
    IF StrLen(t) > n
    THEN /\ out # <<>>
         /\ out[Len(out)] = [c |-> "ELLIPSIS", n |-> 1]
         /\ IsWithoutTrailingSpace(SubSeq(out, 1, Len(out) - 1), StrSlice0(t, n - 1))
    ELSE out = t

\* C20: every retained bullet whose trimmed length exceeds
\* truncateCharPerLine is returned as the first truncateCharPerLine - 1
\* characters of the trimmed bullet, trailing whitespace removed, followed
\* by one ellipsis; a bullet of at most truncateCharPerLine characters is
\* returned trimmed and otherwise unchanged.
C20_BulletsTruncated ==
    Returned1 =>
        \A i \in 1..Len(pass1.data.experience.v) :
            \A j \in 1..Len(pass1.data.experience.v[i].description.v) :
                IsTruncationOf(pass1.data.experience.v[i].description.v[j].v,
                               StrTrim(OrEmpty(InExperience[i].description.v[j])),
                               pass1.data._layout.truncateCharPerLine)

\* C20 witness: in normal mode a bullet of 300 characters came back as 219
\* characters and the ellipsis, one of exactly 220 unchanged, and one with
\* whitespace before the cut as 218 characters and the ellipsis.
C20_Witness ==
    /\ Returned1
    /\ pass1.data._layout.truncateCharPerLine = 220
    /\ Len(pass1.data.experience.v) > 0
    /\ LET d == Texts(pass1.data.experience.v[1].description)
       IN  /\ Len(d) = 4
           /\ d[1] = Cat(Fill("x", 118), Cat(Fill(SPACE, 2), Cat(Fill("y", 98), ELLIPSIS)))
           /\ d[2] = Cat(Fill("q", 219), ELLIPSIS)
           /\ d[3] = Fill("e", 220)
           /\ StrLen(InExperience[1].description.v[2].v) = 300

\* " • " and the trimmed bullet, for each of the first n bullets in order.
RECURSIVE BulletTail(_, _)
BulletTail(bullets, n) ==
    IF n = 0 THEN <<>>
    ELSE Cat(BulletTail(bullets, n - 1), Cat(BulletSep, StrTrim(bullets[n].v)))

\* An experience entry with a role, a company and bullets that are texts
\* with something other than whitespace in them.
CompleteExp(e) ==
    /\ Truthy(e.role) /\ Truthy(e.company)
    /\ StrTrim(e.role.v) = e.role.v /\ StrTrim(e.company.v) = e.company.v
    /\ IsArray(e.description)
    /\ \A j \in 1..Len(e.description.v) :
           e.description.v[j].k = "str" /\ StrTrim(e.description.v[j].v) # <<>>

\* "{role} — {company}", then " • " and each of the first maxBullets bullets
\* in full.
CondensedExp(e, maxBullets) ==
    LET n == IF Len(e.description.v) < maxBullets THEN Len(e.description.v) ELSE maxBullets
    IN  Cat(e.role.v, Cat(DashSep, Cat(e.company.v, BulletTail(e.description.v, n))))

\* "{degree} — {school} {year}", the year trimmed and left out with its
\* space when there is none.
CondensedEdu(ed) ==
    LET year == StrTrim(OrEmpty(ed.year))
    IN  Cat(ed.degree.v, Cat(DashSep, Cat(ed.school.v,
            IF year = <<>> THEN <<>> ELSE Cat(Sp, year))))

\* C21: each condensed experience-overflow string is "{role} — {company}"
\* followed by " • " and each of at most maxBulletsPerExp bullets of that
\* entry, none of them cut to truncateCharPerLine; each education-overflow
\* string is "{degree} — {school} {year}"; with no existing achievements the
\* first returned achievement is the first condensed string.
C21_CondensedFormat ==
    Returned1 =>
        LET maxExp == pass1.data._layout.maxExperienceItems
            maxEdu == pass1.data._layout.maxEducationItems
            maxB   == pass1.data._layout.maxBulletsPerExp
        IN  /\ \A i \in 1..Len(PendingExp) :
                   CompleteExp(InExperience[maxExp + i]) =>
                       PendingExp[i] = CondensedExp(InExperience[maxExp + i], maxB)
            /\ \A i \in 1..Len(PendingEdu) :
                   PendingEdu[i] = CondensedEdu(InEducation[maxEdu + i])
            /\ (/\ Len(PendingExp) > 0
                /\ CompleteExp(InExperience[maxExp + 1])
                /\ ~IsArray(JsonCopy(input).achivements)) =>
                   pass1.data.achivements.v[1].v
                       = CondensedExp(InExperience[maxExp + 1], maxB)

\* C21 witness: a compact first pass condensed an entry whose second bullet
\* has 121 characters; the string returned in achievements holds it in full
\* and is longer than truncateCharPerLine = 120.
C21_Witness ==
    /\ Returned1
    /\ pass1.data._layout.truncateCharPerLine = 120
    /\ Len(PendingExp) > 0 /\ Len(PendingEdu) > 0
    /\ ~IsArray(JsonCopy(input).achivements)
    /\ InExperience[4].description.v[2].v = Fill("g", 121)
    /\ pass1.data.achivements.v[1].v
         = Cat(Fill("r", 4), Cat(DashSep, Cat(Fill("c", 3), Cat(BulletSep,
               Cat(Fill("f", 120), Cat(BulletSep, Fill("g", 121)))))))
    /\ StrLen(pass1.data.achivements.v[1].v) > 120

\* The four item caps of a returned layout.
ItemCaps(layout) ==
    <<layout.maxExperienceItems, layout.maxBulletsPerExp,
      layout.maxEducationItems, layout.truncateCharPerLine>>

\* The caps are the normal set or the compact set as compactMode says.
FixedCaps(layout) ==
    ItemCaps(layout) = IF layout.compactMode THEN <<3, 2, 2, 120>> ELSE <<6, 4, 6, 220>>

\* C22: in every returned _layout (maxExperienceItems, maxBulletsPerExp,
\* maxEducationItems, truncateCharPerLine) is (6, 4, 6, 220) when
\* compactMode is false and (3, 2, 2, 120) when it is true, at every density
\* and so at every globalScale.
C22_CapsFixedByMode ==
    /\ Returned1 => FixedCaps(pass1.data._layout)
    /\ Returned2 => FixedCaps(pass2.data._layout)
    /\ (pc = "repeated" /\ ~again.threw) => FixedCaps(again.data._layout)

\* C22 witness: a first pass above 4200 characters (scaled fonts, compact
\* caps) followed by a second pass in normal mode with the normal caps.
C22_Witness ==
    /\ Returned2
    /\ pass1.data._layout.compactMode /\ ~pass2.data._layout.compactMode
    /\ pass1.data._layout.sectionFontSizes.body < baseBody
    /\ ItemCaps(pass1.data._layout) = <<3, 2, 2, 120>>
    /\ ItemCaps(pass2.data._layout) = <<6, 4, 6, 220>>

\* max(0, (len - 24) * 0.25) in quarter pixels.
PenaltyQuarters(len) == IF len - 24 > 0 THEN len - 24 ELSE 0

\* clamp(round(scaled40 - penalty), 16, 48) for a whole number scaled40 =
\* 40 * globalScale: round(x) is floor(x + 1/2), here floor of
\* (4 * scaled40 - quarters + 2) / 4.
NameSizeAt(scaled40, len) ==
    LET k == (4 * scaled40 - PenaltyQuarters(len) + 2) \div 4
    IN  IF k < 16 THEN 16 ELSE IF k > 48 THEN 48 ELSE k

\* Name lengths on both sides of 24 and up to the longest name drawn.
NameLengths == {0, 10, 23, 24, 25, 26, 27, 28, 40, 60, 90, LongNameLen}

\* C23: nameFontSize = clamp(round(40 * globalScale - penalty), 16, 48)
\* with penalty = max(0, (len(name) - 24) * 0.25), stated where
\* 40 * globalScale is a whole number (40 up to 3600 characters, 28 from
\* 7347 on); a name of at most 24 characters gets exactly 40 when
\* totalChars <= 3600; and at the scale of the call no shorter name gets a
\* smaller size and no longer name a larger one.
C23_NameFontSize ==
    Returned1 =>
        LET size == pass1.data._layout.nameFontSize
        IN  /\ Total1 <= TARGET_CHARS => size = NameSizeAt(40, NameLen1)
            /\ Total1 >= 7347 => size = NameSizeAt(28, NameLen1)
            /\ (NameLen1 <= 24 /\ Total1 <= TARGET_CHARS) => size = 40
            /\ \A len \in NameLengths :
                   /\ len <= NameLen1 => nameFontSize(Total1, len) >= size
                   /\ len >= NameLen1 => nameFontSize(Total1, len) <= size

\* C23 witness: a name of 10 characters and nothing else gives
\* totalChars = 10, compactMode = false and nameFontSize = 40.
C23_Witness ==
    /\ Returned1
    /\ NameLen1 = 10 /\ Total1 = 10
    /\ ~pass1.data._layout.compactMode
    /\ pass1.data._layout.nameFontSize = 40

\* round(p / q) for whole p >= 0, q > 0, halves up, kept within lo..hi.
RoundedWithin(p, q, lo, hi) ==
    LET k == (2 * p + q) \div (2 * q)
    IN  IF k < lo THEN lo ELSE IF k > hi THEN hi ELSE k

\* The densities at which globalScale is a fraction: 1 up to 3600
\* characters, 4/5 at 5625, 3/4 at 6400 and 7/10 from 7347 on.
FractionScale(total) ==
    total <= TARGET_CHARS \/ total \in {5625, 6400} \/ total >= 7347

ScaleNum(total) ==
    IF total <= TARGET_CHARS THEN 1 ELSE IF total = 5625 THEN 4
    ELSE IF total = 6400 THEN 3 ELSE 7

ScaleDen(total) ==
    IF total <= TARGET_CHARS THEN 1 ELSE IF total = 5625 THEN 5
    ELSE IF total = 6400 THEN 4 ELSE 10

\* C24: sidebarTitle and sidebarBody carry the extra 0.88 exactly when
\* totalChars > 4200 (at 4200 sidebarTitle equals body, which has the same
\* base and window, and the sizes are 11 and 10; at 4201 they are 10 and 9);
\* sectionTitle, body and duration are base * globalScale without it; and
\* whenever the penalty applies compactMode is true.
C24_SidebarPenalty ==
    Returned1 =>
        LET f   == pass1.data._layout.sectionFontSizes
            n   == ScaleNum(Total1)
            d   == ScaleDen(Total1)
            pen == Total1 > COMPACT_CHAR_THRESHOLD
            pn  == IF pen THEN 22 ELSE 1
            pd  == IF pen THEN 25 ELSE 1
        IN  /\ ~pen => f.sidebarTitle = f.body
            /\ Total1 = COMPACT_CHAR_THRESHOLD => f.sidebarTitle = 11 /\ f.sidebarBody = 10
            /\ Total1 = COMPACT_CHAR_THRESHOLD + 1 =>
                   f.sidebarTitle = 10 /\ f.sidebarBody = 9 /\ f.body = 11
            /\ FractionScale(Total1) =>
                   /\ f.sidebarTitle = RoundedWithin(12 * n * pn, d * pd, 9, 14)
                   /\ f.sidebarBody = RoundedWithin(11 * n * pn, d * pd, 8, 12)
                   /\ f.sectionTitle = RoundedWithin(14 * n, d, 10, 18)
                   /\ f.body = RoundedWithin(12 * n, d, 9, 14)
                   /\ f.duration = RoundedWithin(10 * n, d, 8, 12)
            /\ pen => pass1.data._layout.compactMode

\* C24 witness: at 5625 characters (scale 4/5) the sidebar sizes are those
\* of 0.88 * 4/5 (8.448 raised to the limit 9, and 7.744 rounded to 8)
\* while sectionTitle, body and duration are 11, 10 and 8, in compact mode.
C24_Witness ==
    /\ Returned1
    /\ Total1 = 5625
    /\ pass1.data._layout.compactMode
    /\ pass1.data._layout.sectionFontSizes.sidebarTitle = 9
    /\ pass1.data._layout.sectionFontSizes.sidebarBody = 8
    /\ pass1.data._layout.sectionFontSizes.sectionTitle = 11
    /\ pass1.data._layout.sectionFontSizes.body = 10
    /\ pass1.data._layout.sectionFontSizes.duration = 8

\* C25: after any sequence of edits saved through the form editor (entries
\* and bullets added, removed or changed, a scalar field changed) the
\* record's _layout is the one the resolver attached before the edits.
C25_LayoutKeptByEditor ==
    (edits > 0 /\ ~pass1.threw) => resumeData._layout = pass1.data._layout

\* C25 witness: two saved edits removed experience entries of a compact
\* record; the resolver would now answer with other hints, yet the record
\* keeps the compact ones.
C25_Witness ==
    /\ edits = MaxEdits
    /\ pc = "edited"
    /\ ~pass1.threw
    /\ pass1.data._layout.compactMode
    /\ Len(resumeData.experience.v) < Len(pass1.data.experience.v)
    /\ resumeData._layout = pass1.data._layout
    /\ preprocessResume(resumeData).data._layout # resumeData._layout

\* The fields the resolver has no cap for.
UncappedFields == {"name", "title", "contact", "summary", "volunteer"}

\* C26: name, title, contact, summary and volunteer of the returned record
\* equal those of the input (of the empty record when there is no input);
\* volunteer entries are not capped, their bullets not cut, and none of
\* them is moved to achievements.
C26_UncappedFieldsUntouched ==
    Returned1 =>
        \A f \in UncappedFields :
            pass1.data[f] = IF IsRecord(input) THEN input[f] ELSE Undefined

\* C26 witness: a compact call (bullets cut to 120 characters) returned the
\* two volunteer entries, the 130-character bullet included, as given.
C26_Witness ==
    /\ Returned1
    /\ pass1.data._layout.truncateCharPerLine = 120
    /\ input.volunteer = Volunteer
    /\ pass1.data.volunteer = Volunteer
    /\ StrLen(pass1.data.volunteer.v[1].description.v[1].v) = 130
    /\ pass1.data.name = input.name /\ pass1.data.contact = Contact

\* C27 as claimed: the list preprocessResume returns in its achievements
\* field (the existing achievements and the condensed overflow entries) is
\* the list the selected template displays: one item per string, in order,
\* each beginning as the string does.
C27_AchievementsDisplayed ==
    (pc = "rendered" /\ ~rendered.edited /\ ~pass1.threw) =>
        LET given == Texts(pass1.data.achivements)
            shown == rendered.view.achievements
        IN  /\ Len(shown) = Len(given)
            /\ \A i \in 1..Len(given) :
                   StartsWith(given[i], StrSlice0(shown[i], StrLen(shown[i]) - 1))

\* The six font sizes f are nowhere smaller than the sizes g.
FontsAtLeast(f, g) ==
    \A s \in {"name", "sectionTitle", "body", "sidebarTitle", "sidebarBody", "duration"} :
        f[s] >= g[s]

\* Densities on both sides of every threshold of the scale.
OtherTotals == {0, 2200, 3601, 4200, 4201, 5625, 7346, 7347}

\* C28: of two inputs with the same name length, the one with no more
\* characters gets a nameFontSize and section font sizes that are nowhere
\* smaller: stated between the first call and the call on its result
\* (same name, fewer or more characters), and between the first call and
\* the sizes of other densities with the same name.
C28_FontsShrinkWithContent ==
    /\ Returned2 =>
          LET f1 == pass1.data._layout.sectionFontSizes
              f2 == pass2.data._layout.sectionFontSizes
          IN  /\ Total1 <= Total2 =>
                     /\ FontsAtLeast(f1, f2)
                     /\ pass1.data._layout.nameFontSize >= pass2.data._layout.nameFontSize
              /\ Total2 <= Total1 =>
                     /\ FontsAtLeast(f2, f1)
                     /\ pass2.data._layout.nameFontSize >= pass1.data._layout.nameFontSize
    /\ (pc = "processed" /\ ~pass1.threw) =>
          \A t \in OtherTotals :
              LET f1 == pass1.data._layout.sectionFontSizes
                  ft == sectionFontSizes(t, NameLen1)
              IN  /\ Total1 <= t => FontsAtLeast(f1, ft)
                  /\ t <= Total1 => FontsAtLeast(ft, f1)

\* C28 witness: the second call saw fewer characters than the first (same
\* name) and returned a larger body size and no smaller size anywhere.
C28_Witness ==
    /\ Returned2
    /\ Total2 < Total1
    /\ pass2.data.name = pass1.data.name
    /\ pass2.data._layout.sectionFontSizes.body > pass1.data._layout.sectionFontSizes.body
    /\ FontsAtLeast(pass2.data._layout.sectionFontSizes, pass1.data._layout.sectionFontSizes)

\* The calls that have ended.
LogEntries == {log[i] : i \in 1..Len(log)}

\* C29: under any interleaving of saveResume, updateResume, getResume and
\* deleteResume calls by any users, the userId stored on a document is the
\* userId of the saveResume call that created it; a document is updated,
\* returned or deleted only by a call with that userId (so what it holds
\* was written by its owner); and a call that meets a document of another
\* user ends with the Unauthorized error and leaves the collection as it
\* was.
C29_OwnerOnly ==
    /\ \A resumeId \in 1..Len(docs) :
          /\ \E e \in LogEntries :
                 /\ e.op = "saveResume" /\ e.result = "ok" /\ e.resumeId = resumeId
                 /\ e.userId = docs[resumeId].userId
          /\ docs[resumeId].resumeData.by = docs[resumeId].userId
    /\ \A e \in LogEntries :
          /\ (e.op # "saveResume" /\ (e.changed \/ e.result \in {"ok", "returned"}))
                 => e.owner = e.userId
          /\ (e.owner # "" /\ e.owner # e.userId)
                 => e.result = "Unauthorized" /\ ~e.changed

\* C29 witness: bob's update of alice's document was refused and left the
\* collection as it was; alice's own update was applied, and the document
\* holds what she wrote.
C29_Witness ==
    /\ Len(docs) = 1 /\ docs[1].exists /\ docs[1].userId = "alice"
    /\ docs[1].resumeData = [by |-> "alice", call |-> 3]
    /\ Len(log) = MaxCalls
    /\ log[1].op = "saveResume"
    /\ log[2] = [op |-> "updateResume", userId |-> "bob", resumeId |-> 1,
                 owner |-> "alice", result |-> "Unauthorized", changed |-> FALSE]
    /\ log[3] = [op |-> "updateResume", userId |-> "alice", resumeId |-> 1,
                 owner |-> "alice", result |-> "ok", changed |-> TRUE]

\* preprocessResume raised in handleSubmit, and the handler has ended.
FellBack == pc = "returned" /\ pass1 # Undefined /\ pass1.threw

\* C30: whenever handleSubmit has set loading to true, on every path
\* loading is eventually false again with the abort timer cleared; and
\* when preprocessResume raised, the page holds the unprocessed data, has
\* navigated to the preview with them and shows no error.
C30_LoadingEnds ==
    /\ loading ~> (~loading /\ timer = "cleared")
    /\ [](FellBack =>
            /\ resumeData = input
            /\ navigated = JsonCopy(input)
            /\ errorMsg = Null)

\* C30 witness: the answer held a null experience entry, preprocessResume
\* raised, and the handler ended with the raw data stored and navigated
\* to, loading false, the timer cleared and no error message.
C30_Witness ==
    /\ FellBack
    /\ NullEntry(input)
    /\ resumeData = input
    /\ navigated = JsonCopy(input)
    /\ ~loading /\ timer = "cleared" /\ errorMsg = Null

===========================================================================
